---- MODULE Spec2Model ----
(***************************************************************************)
(* Test-particle tracer of Vlasiator: the Boris pusher (Particle::push),   *)
(* the snapshot writer (writeParticles) and the scenario hooks             *)
(* (newTimestep / afterPush) of the precipitation and shockReflectivity    *)
(* scenarios.                                                              *)
(*                                                                         *)
(* Numbers.  A C++ double is modelled as a fixed-point number: the integer *)
(* n stands for the real n / Scale.  Products and quotients are rounded    *)
(* toward zero, which stands for the rounding of the floating-point unit.  *)
(* NaN is one distinguished value outside the finite range; every          *)
(* arithmetic operation propagates it and every comparison with it is      *)
(* false, as IEEE 754 prescribes.  Infinities are not modelled: the guards *)
(* of the actions keep every finite value within MaxMag.                   *)
(***************************************************************************)
EXTENDS Integers, Sequences, FiniteSets

VARIABLES
    scenario,     \* which Scenario object the run holds
    particles,    \* std::vector<Particle>: sequence of [m, q, x, v]
    transmitted,  \* shockReflectivityScenario::transmitted (Vec2d entries)
    reflected,    \* shockReflectivityScenario::reflected   (Vec2d entries)
    out,          \* lines printed on standard output
    files,        \* the file writeParticles wrote last
    saved,        \* the histogram files finalize wrote
    origin,       \* history: per particle, the newTimestep call that made it
    added,        \* history: per addValue call, the particle index and sink
    ncalls,       \* history: number of newTimestep calls so far
    npush,        \* history: number of Particle::push calls so far
    last,         \* history: the call made last
    err,          \* lines written to std::cerr
    params,       \* ParticleParameters the sittings of a run may differ in
    input,        \* history: the arguments the calls so far were given
    args,           \* vlsvdiff: what args[1] and args[2] name
    fileList1,      \* vlsvdiff main: the names processDirectory found, sorted
    fileList2,
    it1,            \* vlsvdiff main: how far the iterators have advanced
    it2,
    pc,             \* vlsvdiff main: where it stands, or how it ended
    pairStats,      \* outputStats: static vector<Real> pairStats
    fileNumber,     \* outputStats: static uint fileNumber
    fileOutputData, \* outputDistance: static vector<Real> fileOutputData
    header,         \* printNonVerboseData: static bool header
    calls           \* history: the process2Files calls and what they returned

\* the state of the particle tracer, its output streams left out
tracervars == <<scenario, particles, transmitted, reflected, files, saved,
                origin, added, ncalls, npush, last, params, input>>

\* the state of vlsvdiff, its output streams left out
diffvars == <<args, fileList1, fileList2, it1, it2, pc, pairStats, fileNumber,
              fileOutputData, header, calls>>

vars == <<scenario, particles, transmitted, reflected, out, files, saved,
          origin, added, ncalls, npush, last, err, params, input,
          args, fileList1, fileList2, it1, it2, pc, pairStats, fileNumber,
          fileOutputData, header, calls>>

-----------------------------------------------------------------------------
(* Bounds of the model *)

\* fixed-point resolution: n stands for n / Scale
Scale == 4
\* largest finite coordinate or velocity component, in units of 1 / Scale
MaxMag == 24
\* Particle::push calls explored per run
MaxPush == 2
\* largest population explored: newTimestep is not called beyond it
MaxParticles == 8
\* newTimestep calls explored per run
MaxSteps == 2
\* lines of output explored in the scenarios that print every step
MaxLines == 4

-----------------------------------------------------------------------------
(* IEEE 754 double arithmetic *)

\* std::numeric_limits<double>::quiet_NaN()
NaN == 1000000000

isnan(a) == a = NaN

Abs(a) == IF a < 0 THEN -a ELSE a

\* integer quotient rounded toward zero
Quot(a, b) ==
    IF (a < 0) = (b < 0) THEN Abs(a) \div Abs(b) ELSE -(Abs(a) \div Abs(b))

\* the double nearest to the C++ literal or integer n
D(n) == n * Scale

FAdd(a, b) == IF isnan(a) \/ isnan(b) THEN NaN ELSE a + b
FSub(a, b) == IF isnan(a) \/ isnan(b) THEN NaN ELSE a - b
FNeg(a) == IF isnan(a) THEN NaN ELSE -a
FMul(a, b) == IF isnan(a) \/ isnan(b) THEN NaN ELSE Quot(a * b, Scale)
\* 0/0 is NaN; x/0 for x # 0 is an infinity, which no modelled
\* configuration produces
FDiv(a, b) ==
    IF isnan(a) \/ isnan(b) \/ b = 0 THEN NaN ELSE Quot(a * Scale, b)

\* comparisons: false as soon as one side is NaN
FLe(a, b) == ~isnan(a) /\ ~isnan(b) /\ a <= b
FLt(a, b) == ~isnan(a) /\ ~isnan(b) /\ a < b
FGt(a, b) == ~isnan(a) /\ ~isnan(b) /\ a > b
FEq(a, b) == ~isnan(a) /\ ~isnan(b) /\ a = b

\* largest r in lo..hi with r * r <= n, by bisection (lo * lo <= n)
RECURSIVE SqrtIn(_, _, _)
SqrtIn(n, lo, hi) ==
    IF lo = hi THEN lo
    ELSE LET mid == (lo + hi + 1) \div 2
         IN  IF mid * mid <= n THEN SqrtIn(n, mid, hi)
             ELSE SqrtIn(n, lo, mid - 1)

ISqrt(n) == SqrtIn(n, 0, n)

\* sqrt: NaN for NaN and for negative arguments
FSqrt(a) == IF isnan(a) \/ a < 0 THEN NaN ELSE ISqrt(a * Scale)

-----------------------------------------------------------------------------
(* Vec3d and the vector functions of vector3d.h *)

Vec3d(a, b, c) == <<a, b, c>>

VAdd(a, b) == <<FAdd(a[1], b[1]), FAdd(a[2], b[2]), FAdd(a[3], b[3])>>
\* scalar * Vec3d
VScale(s, a) == <<FMul(s, a[1]), FMul(s, a[2]), FMul(s, a[3])>>
\* Vec3d / scalar
VDiv(a, s) == <<FDiv(a[1], s), FDiv(a[2], s), FDiv(a[3], s)>>

dot_product(a, b) ==
    FAdd(FAdd(FMul(a[1], b[1]), FMul(a[2], b[2])), FMul(a[3], b[3]))

cross_product(a, b) ==
    <<FSub(FMul(a[2], b[3]), FMul(a[3], b[2])),
      FSub(FMul(a[3], b[1]), FMul(a[1], b[3])),
      FSub(FMul(a[1], b[2]), FMul(a[2], b[1]))>>

vector_length(a) == FSqrt(dot_product(a, a))

\* speed of light squared, in model units (lengths per time unit)
c_squared == D(4)

\* relativistic_math.h: gamma(u) = sqrt(1 + dot(u,u)/c^2)
gamma(u) == FSqrt(FAdd(D(1), FDiv(dot_product(u, u), c_squared)))

-----------------------------------------------------------------------------
(* Particle *)

Particle(m, q, x, v) == [m |-> m, q |-> q, x |-> x, v |-> v]

\* PhysicalConstantsSI::mp and PhysicalConstantsSI::e, in model units
mp == D(1)
e == D(1)

\* the sentinel written by afterPush
NaNPos == Vec3d(NaN, D(0), D(0))
ZeroVec == Vec3d(D(0), D(0), D(0))

\* the test afterPush uses to skip a particle
Disabled(p) == isnan(vector_length(p.x))

\* a component is NaN or within the modelled finite range
InRange(a) == isnan(a) \/ Abs(a) <= MaxMag
InRangeVec(a) == InRange(a[1]) /\ InRange(a[2]) /\ InRange(a[3])

\* a push that assigns the position instead of adding to it
PushAssignX(p, B, E, dt) ==
    LET half == VDiv(VScale(dt, VScale(p.q, E)), FMul(D(2), p.m))
        uminus == VAdd(p.v, half)
        h == VDiv(VScale(dt, VScale(p.q, B)),
                  FMul(FMul(D(2), p.m), gamma(uminus)))
        uprime == VAdd(uminus, cross_product(uminus, h))
        h2 == VDiv(VScale(D(2), h), FAdd(D(1), dot_product(h, h)))
        uplus == VAdd(uminus, cross_product(uprime, h2))
        vnew == VAdd(uplus, half)
    IN  [p EXCEPT !.v = vnew, !.x = VScale(dt, vnew)]

\* Particle::push: the particle after one Boris step
PushParticle(p, B, E, dt) ==
    LET half == VDiv(VScale(dt, VScale(p.q, E)), FMul(D(2), p.m))
        uminus == VAdd(p.v, half)
        h == VDiv(VScale(dt, VScale(p.q, B)),
                  FMul(FMul(D(2), p.m), gamma(uminus)))
        uprime == VAdd(uminus, cross_product(uminus, h))
        h2 == VDiv(VScale(D(2), h), FAdd(D(1), dot_product(h, h)))
        uplus == VAdd(uminus, cross_product(uprime, h2))
        vnew == VAdd(uplus, half)
    IN  [p EXCEPT !.v = vnew, !.x = VAdd(p.x, VScale(dt, vnew))]

\* field samples and time steps handed to push
\* <<B, E, dt>>: a field-free step and a step in crossed fields
PushSamples ==
    {<<Vec3d(D(0), D(0), D(0)), Vec3d(D(0), D(0), D(0)), D(1)>>,
     <<Vec3d(D(0), D(0), D(1)), Vec3d(D(1), D(0), D(0)), D(1)>>}

-----------------------------------------------------------------------------
(* Fields: the external E, B and V samplers, pure functions of position *)

\* <<B, V>>: the fields one newTimestep call is handed: a current sheet
\* in a uniform flow, and a uniform B in a flow that varies with z
FieldSamples == {<<"sheet", "flow">>, <<"uniform", "sheet">>}

\* value of a named field at pos
Field(f, pos) ==
    CASE f = "uniform" -> Vec3d(D(0), D(0), D(1))
      [] f = "sheet"   -> Vec3d(pos[3], D(0), D(0))
      [] f = "rest"    -> Vec3d(D(0), D(0), D(0))
      [] f = "flow"    -> Vec3d(D(1), D(0), D(0))
      [] f = "shear"   -> Vec3d(pos[2], D(0), D(0))

-----------------------------------------------------------------------------
(* ParticleParameters: the run's configuration, in model units             *)
(* (length 1e7 m, time 5 s)                                                *)

num_particles == 2
precip_start_x == D(-3)
precip_stop_x == D(-1)
precip_inner_boundary == params.precip_inner_boundary
reflect_start_y == D(-2)
reflect_stop_y == D(2)
reflect_y_scale == D(2)
reflect_x_offset == D(1)
reflect_upstream_boundary == D(1)
reflect_downstream_boundary == D(1)
start_time == D(50)
input_dt == D(87)
random_seed == 1
init_x == D(2)
init_y == D(1)
init_z == D(0)

\* the configuration of the runs: the inner boundary lies inside the
\* injection line
DefaultParams == [precip_inner_boundary |-> D(1)]
\* a configuration whose inner boundary reaches beyond the injection line
WideParams == [precip_inner_boundary |-> D(4)]

\* no call has been given an argument yet
NoInput ==
    [name |-> "", stdin |-> <<>>, V |-> "", time |-> D(0), p |-> <<>>]

\* the hooks of a scenario are called between initialParticles and
\* finalize, and not at all once the process has exited
Running == last \notin {"none", "createScenario", "exit", "finalize"}

\* the tracer runs are runs of another program than vlsvdiff: its state is
\* that of a process that was not started
DiffIdle ==
    /\ args = <<>>
    /\ fileList1 = <<>>
    /\ fileList2 = <<>>
    /\ it1 = 0
    /\ it2 = 0
    /\ pc = "none"
    /\ pairStats = <<>>
    /\ fileNumber = 0
    /\ fileOutputData = <<>>
    /\ header = TRUE
    /\ calls = <<>>

-----------------------------------------------------------------------------
(* writeParticles *)

\* rows stored by a loop of writeParticles that skips nothing
RECURSIVE StoreAll(_, _, _)
StoreAll(p, n, what) ==
    IF n = 0 THEN <<>>
    ELSE Append(StoreAll(p, n - 1, what),
                IF what = "x" THEN p[n].x ELSE p[n].v)

\* the rows one loop of writeParticles stores in writebuf from the first n
\* particles: what = "x" for the position loop, "v" for the velocity loop
RECURSIVE Store(_, _, _)
Store(p, n, what) ==
    IF n = 0 THEN <<>>
    ELSE IF FEq(vector_length(p[n].x), D(0))
         THEN Store(p, n - 1, what)
         ELSE Append(Store(p, n - 1, what),
                     IF what = "x" THEN p[n].x ELSE p[n].v)

\* the two lines writeParticles can write to std::cerr
PositionError == "ERROR failed to write particle positions!"
VelocityError == "ERROR failed to write particle velocities!"

\* what the two writeArray calls of one writeParticles call can return:
\* <<positions written, velocities written>>
WriteOutcomes ==
    {<<TRUE, TRUE>>, <<FALSE, TRUE>>, <<TRUE, FALSE>>, <<FALSE, FALSE>>}

\* a writeParticles that gives up at the first failed writeArray
writeParticlesAbort(p, filename, ok) ==
    IF ok[1]
    THEN [file |-> [name |-> filename,
                    proton_position |-> Store(p, Len(p), "x"),
                    proton_velocity |-> Store(p, Len(p), "v"),
                    attempted |-> <<"proton_position", "proton_velocity">>,
                    written |-> {"proton_position"} \cup
                        (IF ok[2] THEN {"proton_velocity"} ELSE {}),
                    closed |-> TRUE],
          err |-> IF ok[2] THEN <<>> ELSE <<VelocityError>>]
    ELSE [file |-> [name |-> filename,
                    proton_position |-> Store(p, Len(p), "x"),
                    proton_velocity |-> <<>>,
                    attempted |-> <<"proton_position">>,
                    written |-> {},
                    closed |-> FALSE],
          err |-> <<PositionError>>]

\* writeParticles(p, filename) when its writeArray calls return ok[1] and
\* ok[2]: the calls made on the vlsv::Writer and the lines on std::cerr.
\* proton_position and proton_velocity are the rows handed to writeArray,
\* attempted the arrays writeArray was called for in order, written those
\* for which it returned true, closed whether close() was reached
writeParticlesOutcome(p, filename, ok) ==
    [file |-> [name |-> filename,
               proton_position |-> Store(p, Len(p), "x"),
               proton_velocity |-> Store(p, Len(p), "v"),
               attempted |-> <<"proton_position", "proton_velocity">>,
               written |-> (IF ok[1] THEN {"proton_position"} ELSE {}) \cup
                           (IF ok[2] THEN {"proton_velocity"} ELSE {}),
               closed |-> TRUE],
     err |-> (IF ok[1] THEN <<>> ELSE <<PositionError>>) \o
             (IF ok[2] THEN <<>> ELSE <<VelocityError>>)]

\* the file writeParticles(p, filename) leaves behind when both arrays are
\* written; the scenario runs are explored with writes that succeed
writeParticles(p, filename) ==
    writeParticlesOutcome(p, filename, <<TRUE, TRUE>>).file

\* output_filename_pattern with the counter substituted
PatternName(counter) == [file |-> "output_filename_pattern", n |-> counter]
FinalName == [file |-> "particles_final.vlsv", n |-> 0]

NoFile ==
    [name |-> [file |-> "", n |-> 0],
     proton_position |-> <<>>, proton_velocity |-> <<>>,
     attempted |-> <<>>, written |-> {}, closed |-> FALSE]

-----------------------------------------------------------------------------
(* precipitationScenario *)

Half == FDiv(D(1), D(2))

\* atan2 on the points the model needs: the angle of (x, z) in the x-z
\* plane to the nearest quarter turn, NaN when an argument is NaN
Pi == Quot(355 * Scale, 113)
atan2(z, x) ==
    IF isnan(z) \/ isnan(x) THEN NaN
    ELSE IF Abs(z) > Abs(x) THEN (IF z > 0 THEN Quot(Pi, 2) ELSE -Quot(Pi, 2))
    ELSE IF x >= 0 THEN D(0)
    ELSE IF z >= 0 THEN Pi ELSE -Pi

\* start_pos as afterPush derives it from the index i (0-based)
PrecipStartPos(i) ==
    FAdd(precip_start_x,
         FMul(FDiv(D(i % num_particles), D(num_particles)),
              FSub(precip_stop_x, precip_start_x)))

\* start_timestep derived from the index counted from 1
PrecipStartTimestepOneBased(i) == (i + 1) \div num_particles

\* start_timestep as afterPush derives it from the index i (0-based)
PrecipStartTimestep(i) == i \div num_particles

\* the iteration with the inner boundary tested by < instead of <=
PrecipCheckStrict(i, p) ==
    IF isnan(vector_length(p.x)) THEN [p |-> p, lines |-> <<>>]
    ELSE IF FLt(vector_length(p.x), precip_inner_boundary)
    THEN [p |-> [p EXCEPT !.x = NaNPos, !.v = ZeroVec],
          lines |-> << <<i, PrecipStartTimestep(i), PrecipStartPos(i),
                         atan2(p.x[3], p.x[1]),
                         FDiv(FMul(FMul(Half, p.m), dot_product(p.v, p.v)), e)>> >>]
    ELSE IF FLe(p.x[1], precip_start_x)
    THEN [p |-> [p EXCEPT !.x = NaNPos, !.v = ZeroVec],
          lines |-> << <<i, PrecipStartTimestep(i), PrecipStartPos(i),
                         D(-5), D(-1)>> >>]
    ELSE [p |-> p, lines |-> <<>>]

\* the iteration that disables a particle by moving it to the origin, the
\* position writeParticles leaves out
PrecipCheckZeroed(i, p) ==
    IF isnan(vector_length(p.x)) THEN [p |-> p, lines |-> <<>>]
    ELSE IF FLe(vector_length(p.x), precip_inner_boundary)
    THEN [p |-> [p EXCEPT !.x = ZeroVec, !.v = ZeroVec],
          lines |-> << <<i, PrecipStartTimestep(i), PrecipStartPos(i),
                         atan2(p.x[3], p.x[1]),
                         FDiv(FMul(FMul(Half, p.m), dot_product(p.v, p.v)), e)>> >>]
    ELSE IF FLe(p.x[1], precip_start_x)
    THEN [p |-> [p EXCEPT !.x = ZeroVec, !.v = ZeroVec],
          lines |-> << <<i, PrecipStartTimestep(i), PrecipStartPos(i),
                         D(-5), D(-1)>> >>]
    ELSE [p |-> p, lines |-> <<>>]

\* the iteration that tests the outer threshold before the inner boundary
PrecipCheckOuterFirst(i, p) ==
    IF isnan(vector_length(p.x)) THEN [p |-> p, lines |-> <<>>]
    ELSE IF FLe(p.x[1], precip_start_x)
    THEN [p |-> [p EXCEPT !.x = NaNPos, !.v = ZeroVec],
          lines |-> << <<i, PrecipStartTimestep(i), PrecipStartPos(i),
                         D(-5), D(-1)>> >>]
    ELSE IF FLe(vector_length(p.x), precip_inner_boundary)
    THEN [p |-> [p EXCEPT !.x = NaNPos, !.v = ZeroVec],
          lines |-> << <<i, PrecipStartTimestep(i), PrecipStartPos(i),
                         atan2(p.x[3], p.x[1]),
                         FDiv(FMul(FMul(Half, p.m), dot_product(p.v, p.v)), e)>> >>]
    ELSE [p |-> p, lines |-> <<>>]

\* the iteration with the outer threshold taken at precip_stop_x
PrecipCheckStopX(i, p) ==
    IF isnan(vector_length(p.x)) THEN [p |-> p, lines |-> <<>>]
    ELSE IF FLe(vector_length(p.x), precip_inner_boundary)
    THEN [p |-> [p EXCEPT !.x = NaNPos, !.v = ZeroVec],
          lines |-> << <<i, PrecipStartTimestep(i), PrecipStartPos(i),
                         atan2(p.x[3], p.x[1]),
                         FDiv(FMul(FMul(Half, p.m), dot_product(p.v, p.v)), e)>> >>]
    ELSE IF FLe(p.x[1], precip_stop_x)
    THEN [p |-> [p EXCEPT !.x = NaNPos, !.v = ZeroVec],
          lines |-> << <<i, PrecipStartTimestep(i), PrecipStartPos(i),
                         D(-5), D(-1)>> >>]
    ELSE [p |-> p, lines |-> <<>>]

\* the iteration that disables the particle first and computes the
\* recorded values from what is left of it
PrecipCheckRecordAfter(i, p) ==
    LET q == [p EXCEPT !.x = NaNPos, !.v = ZeroVec]
    IN  IF isnan(vector_length(p.x)) THEN [p |-> p, lines |-> <<>>]
        ELSE IF FLe(vector_length(p.x), precip_inner_boundary)
        THEN [p |-> q,
              lines |-> << <<i, PrecipStartTimestep(i), PrecipStartPos(i),
                             atan2(q.x[3], q.x[1]),
                             FDiv(FMul(FMul(Half, q.m), dot_product(q.v, q.v)),
                                  e)>> >>]
        ELSE IF FLe(p.x[1], precip_start_x)
        THEN [p |-> q,
              lines |-> << <<i, PrecipStartTimestep(i), PrecipStartPos(i),
                             D(-5), D(-1)>> >>]
        ELSE [p |-> p, lines |-> <<>>]

\* one iteration of the loop of afterPush on particle i (0-based): the
\* particle afterwards and the lines printed
PrecipCheck(i, p) ==
    IF isnan(vector_length(p.x)) THEN [p |-> p, lines |-> <<>>]
    ELSE IF FLe(vector_length(p.x), precip_inner_boundary)
    THEN [p |-> [p EXCEPT !.x = NaNPos, !.v = ZeroVec],
          lines |-> << <<i, PrecipStartTimestep(i), PrecipStartPos(i),
                         atan2(p.x[3], p.x[1]),
                         FDiv(FMul(FMul(Half, p.m), dot_product(p.v, p.v)), e)>> >>]
    ELSE IF FLe(p.x[1], precip_start_x)
    THEN [p |-> [p EXCEPT !.x = NaNPos, !.v = ZeroVec],
          lines |-> << <<i, PrecipStartTimestep(i), PrecipStartPos(i),
                         D(-5), D(-1)>> >>]
    ELSE [p |-> p, lines |-> <<>>]

\* the loop of afterPush over the first n particles: the particles
\* afterwards and the lines printed, in order
RECURSIVE PrecipLoop(_, _)
PrecipLoop(ps, n) ==
    IF n = 0 THEN [ps |-> ps, lines |-> <<>>]
    ELSE LET done == PrecipLoop(ps, n - 1)
             r == PrecipCheck(n - 1, ps[n])
         IN  [ps |-> [done.ps EXCEPT ![n] = r.p],
              lines |-> done.lines \o r.lines]

\* precipitationScenario::afterPush
PrecipAfterPush ==
    /\ UNCHANGED diffvars
    /\ scenario = "precipitation"
    /\ Running
    /\ LET r == PrecipLoop(particles, Len(particles))
       IN  /\ particles' = r.ps
           /\ out' = out \o r.lines
    /\ last' = "afterPush"
    /\ UNCHANGED <<err, params, input>>
    /\ UNCHANGED <<scenario, transmitted, reflected, files, saved, origin,
                   added, ncalls, npush>>

\* the z scan of newTimestep, in model units: from -1 up to 1 in steps of 1/2
scan_z_min == D(-1)
scan_z_max == D(1)
scan_dz == FDiv(D(1), D(2))
min_B_start == D(5)

\* the scan loop from z on: the position with the smallest |B| so far
RECURSIVE ScanMinB(_, _, _, _, _)
ScanMinB(B, start_x, z, pos, min_B) ==
    IF ~FLt(z, scan_z_max) THEN pos
    ELSE LET candidate_pos == Vec3d(start_x, D(0), z)
             B_here == vector_length(Field(B, candidate_pos))
         IN  IF FLt(B_here, min_B)
             THEN ScanMinB(B, start_x, FAdd(z, scan_dz), candidate_pos, B_here)
             ELSE ScanMinB(B, start_x, FAdd(z, scan_dz), pos, min_B)

\* start_x of the i-th particle (0-based) of a batch
PrecipInjectX(i) ==
    FAdd(precip_start_x,
         FMul(FDiv(D(i), D(num_particles)),
              FSub(precip_stop_x, precip_start_x)))

\* an iteration that samples V on the injection line, where the scan began,
\* instead of at the position the scan chose
PrecipNewParticleVOnLine(i, B, V) ==
    LET pos == ScanMinB(B, PrecipInjectX(i), scan_z_min,
                        Vec3d(PrecipInjectX(i), D(0), D(0)), min_B_start)
    IN  Particle(mp, e, pos, Field(V, Vec3d(PrecipInjectX(i), D(0), D(0))))

\* the particle the i-th iteration of newTimestep creates
PrecipNewParticle(i, B, V) ==
    LET pos == ScanMinB(B, PrecipInjectX(i), scan_z_min,
                        Vec3d(PrecipInjectX(i), D(0), D(0)), min_B_start)
    IN  Particle(mp, e, pos, Field(V, pos))

\* an injection loop that inserts each new particle at the front
RECURSIVE PrecipInjectFront(_, _, _, _)
PrecipInjectFront(ps, n, B, V) ==
    IF n = 0 THEN ps
    ELSE <<PrecipNewParticle(n - 1, B, V)>> \o
         PrecipInjectFront(ps, n - 1, B, V)

\* the particles after the injection loop of newTimestep has run n iterations
RECURSIVE PrecipInject(_, _, _, _)
PrecipInject(ps, n, B, V) ==
    IF n = 0 THEN ps
    ELSE Append(PrecipInject(ps, n - 1, B, V), PrecipNewParticle(n - 1, B, V))

RECURSIVE PrecipOrigins(_, _)
PrecipOrigins(os, n) ==
    IF n = 0 THEN os
    ELSE Append(PrecipOrigins(os, n - 1),
                [call |-> ncalls, start_x |-> PrecipInjectX(n - 1),
                 time |-> D(0), p |-> particles'[Len(particles) + n]])

\* precipitationScenario::newTimestep
PrecipNewTimestep ==
    /\ UNCHANGED diffvars
    /\ scenario = "precipitation"
    /\ Running
    /\ ncalls < MaxSteps
    /\ Len(particles) + num_particles <= MaxParticles
    /\ \E f \in FieldSamples :
         /\ particles' = PrecipInject(particles, num_particles, f[1], f[2])
         /\ files' = writeParticles(particles', PatternName(ncalls))
         /\ input' = [input EXCEPT !.V = f[2]]
    /\ origin' = PrecipOrigins(origin, num_particles)
    /\ ncalls' = ncalls + 1
    /\ last' = "newTimestep"
    /\ UNCHANGED <<err, params>>
    /\ UNCHANGED <<scenario, transmitted, reflected, out, saved, added, npush>>

-----------------------------------------------------------------------------
(* shockReflectivityScenario *)

\* const int num_points: 200 in the source; the model injects at fewer
\* points, all index arithmetic goes through this definition
num_points == 2

\* the literals 10e6, 250. and 435. in model units
front_10e6 == D(1)
front_250 == D(50)
front_435 == D(87)

\* Distribution::next_particle(): the k-th particle (k from 0) drawn from a
\* generator seeded with seed; the velocity is a fixed function of both
next_particle(seed, k) ==
    Particle(mp, e, ZeroVec, Vec3d(D(((seed + k) % 3) - 1), D(0), D(0)))

\* start_y of injection point i (0-based)
ShockStartY(i) ==
    FAdd(reflect_start_y,
         FMul(FDiv(D(i), D(num_points)),
              FSub(reflect_stop_y, reflect_start_y)))

\* the front's x at start_y as newTimestep computes it
ShockInjectX(start_y, time) ==
    LET x0 == FDiv(start_y, reflect_start_y)
        x1 == FMul(x0, FNeg(x0))
        x2 == FMul(x1, FSub(reflect_y_scale,
                  FDiv(FMul(front_10e6, FSub(time, front_250)), front_435)))
    IN  FAdd(x2, FAdd(reflect_x_offset,
                  FDiv(FMul(front_10e6, FSub(time, front_250)), front_435)))

\* a front whose parabola opens the other way: the square of y /
\* reflect_start_y is not negated
ShockBoundaryXOpensUpstream(y, time) ==
    LET x0 == FDiv(y, reflect_start_y)
        x1 == FMul(x0, x0)
        x2 == FMul(x1, FSub(reflect_y_scale,
                  FDiv(FMul(front_10e6, FSub(time, front_250)), front_435)))
    IN  FAdd(x2, FAdd(reflect_x_offset,
                  FDiv(FMul(front_10e6, FSub(time, front_250)), front_435)))

\* the front's x at y as afterPush computes it
ShockBoundaryX(y, time) ==
    LET x0 == FDiv(y, reflect_start_y)
        x1 == FMul(x0, FNeg(x0))
        x2 == FMul(x1, FSub(reflect_y_scale,
                  FDiv(FMul(front_10e6, FSub(time, front_250)), front_435)))
    IN  FAdd(x2, FAdd(reflect_x_offset,
                  FDiv(FMul(front_10e6, FSub(time, front_250)), front_435)))

\* an injection that draws from a generator seeded once with random_seed
\* and kept from call to call
ShockNewParticleKeptGenerator(i, j, step, time, V) ==
    LET pos == Vec3d(ShockInjectX(ShockStartY(i), time), ShockStartY(i), D(0))
        p == next_particle(random_seed,
                           Len(particles) + i * num_particles + j)
    IN  [p EXCEPT !.v = VAdd(p.v, Field(V, pos)), !.x = pos]

\* the particle pushed back by iteration j of the inner loop at point i
ShockNewParticle(i, j, step, time, V) ==
    LET pos == Vec3d(ShockInjectX(ShockStartY(i), time), ShockStartY(i), D(0))
        p == next_particle(random_seed + step, i * num_particles + j)
    IN  [p EXCEPT !.v = VAdd(p.v, Field(V, pos)), !.x = pos]

\* the particles after n iterations of the flattened injection loops
RECURSIVE ShockInject(_, _, _, _, _)
ShockInject(ps, n, step, time, V) ==
    IF n = 0 THEN ps
    ELSE Append(ShockInject(ps, n - 1, step, time, V),
                ShockNewParticle((n - 1) \div num_particles,
                                 (n - 1) % num_particles, step, time, V))

\* history of the injection: for each new particle the ordinal of the
\* call, the arguments of the call and the particle as it was appended
RECURSIVE ShockOrigins(_, _, _, _, _)
ShockOrigins(os, n, step, time, V) ==
    IF n = 0 THEN os
    ELSE Append(ShockOrigins(os, n - 1, step, time, V),
                [call |-> ncalls,
                 start_x |-> ShockInjectX(
                     ShockStartY((n - 1) \div num_particles), time),
                 time |-> time, step |-> step, V |-> V,
                 p |-> particles'[Len(particles) + n]])

\* <<step, time, V>>: the arguments of one newTimestep call
ShockSamples == {<<0, D(50), "rest">>, <<1, D(137), "flow">>}
\* time argument of afterPush
TimeSamples == {D(50), D(137)}

\* shockReflectivityScenario::newTimestep
ShockNewTimestep ==
    /\ UNCHANGED diffvars
    /\ scenario = "reflectivity"
    /\ Running
    /\ ncalls < MaxSteps
    /\ Len(particles) + num_points * num_particles <= MaxParticles
    /\ \E a \in ShockSamples :
         /\ particles' = ShockInject(particles, num_points * num_particles,
                                     a[1], a[2], a[3])
         /\ origin' = ShockOrigins(origin, num_points * num_particles,
                                    a[1], a[2], a[3])
         /\ files' = writeParticles(particles', PatternName(ncalls))
    /\ ncalls' = ncalls + 1
    /\ last' = "newTimestep"
    /\ UNCHANGED <<err, params, input>>
    /\ UNCHANGED <<scenario, transmitted, reflected, out, saved, added, npush>>

\* start_time derived without the division by the number of points
ShockStartTimeNoPoints(i) ==
    FAdd(start_time, FMul(D(i \div num_particles), input_dt))

\* start_time as afterPush derives it from the index i (0-based)
ShockStartTime(i) ==
    FAdd(start_time,
         FMul(D((i \div num_points) \div num_particles), input_dt))

\* the iteration that records a particle and forgets to disable it
ShockCheckNoDisable(i, p, time) ==
    LET y == p.x[2]
        x == ShockBoundaryX(y, time)
        boundary_left == FSub(x, reflect_downstream_boundary)
        boundary_right == FAdd(x, reflect_upstream_boundary)
    IN  IF isnan(vector_length(p.x))
        THEN [p |-> p, transmitted |-> <<>>, reflected |-> <<>>]
        ELSE IF FLt(p.x[1], boundary_left)
        THEN [p |-> p,
              transmitted |-> << <<y, ShockStartTime(i)>> >>,
              reflected |-> <<>>]
        ELSE IF FGt(p.x[1], boundary_right)
        THEN [p |-> p,
              transmitted |-> <<>>,
              reflected |-> << <<y, ShockStartTime(i)>> >>]
        ELSE [p |-> p, transmitted |-> <<>>, reflected |-> <<>>]

\* the iteration that disables a reflected particle without recording it
ShockCheckReflectedUnrecorded(i, p, time) ==
    LET y == p.x[2]
        x == ShockBoundaryX(y, time)
        boundary_left == FSub(x, reflect_downstream_boundary)
        boundary_right == FAdd(x, reflect_upstream_boundary)
    IN  IF isnan(vector_length(p.x))
        THEN [p |-> p, transmitted |-> <<>>, reflected |-> <<>>]
        ELSE IF FLt(p.x[1], boundary_left)
        THEN [p |-> [p EXCEPT !.x = NaNPos, !.v = ZeroVec],
              transmitted |-> << <<y, ShockStartTime(i)>> >>,
              reflected |-> <<>>]
        ELSE IF FGt(p.x[1], boundary_right)
        THEN [p |-> [p EXCEPT !.x = NaNPos, !.v = ZeroVec],
              transmitted |-> <<>>,
              reflected |-> <<>>]
        ELSE [p |-> p, transmitted |-> <<>>, reflected |-> <<>>]

\* one iteration of the loop of afterPush on particle i (0-based) at time:
\* the particle afterwards and what is added to the two histograms
ShockCheck(i, p, time) ==
    LET y == p.x[2]
        x == ShockBoundaryX(y, time)
        boundary_left == FSub(x, reflect_downstream_boundary)
        boundary_right == FAdd(x, reflect_upstream_boundary)
    IN  IF isnan(vector_length(p.x))
        THEN [p |-> p, transmitted |-> <<>>, reflected |-> <<>>]
        ELSE IF FLt(p.x[1], boundary_left)
        THEN [p |-> [p EXCEPT !.x = NaNPos, !.v = ZeroVec],
              transmitted |-> << <<y, ShockStartTime(i)>> >>,
              reflected |-> <<>>]
        ELSE IF FGt(p.x[1], boundary_right)
        THEN [p |-> [p EXCEPT !.x = NaNPos, !.v = ZeroVec],
              transmitted |-> <<>>,
              reflected |-> << <<y, ShockStartTime(i)>> >>]
        ELSE [p |-> p, transmitted |-> <<>>, reflected |-> <<>>]

\* the loop of afterPush over the first n particles: the particles
\* afterwards, what was added to each histogram and, for every addValue
\* call, the index, the histogram it went to and the value added
RECURSIVE ShockLoop(_, _, _)
ShockLoop(ps, n, time) ==
    IF n = 0
    THEN [ps |-> ps, transmitted |-> <<>>, reflected |-> <<>>, added |-> <<>>]
    ELSE LET done == ShockLoop(ps, n - 1, time)
             r == ShockCheck(n - 1, ps[n], time)
         IN  [ps |-> [done.ps EXCEPT ![n] = r.p],
              transmitted |-> done.transmitted \o r.transmitted,
              reflected |-> done.reflected \o r.reflected,
              added |-> done.added \o
                  [k \in 1..Len(r.transmitted) |->
                      [i |-> n - 1, sink |-> "transmitted",
                       value |-> r.transmitted[k]]] \o
                  [k \in 1..Len(r.reflected) |->
                      [i |-> n - 1, sink |-> "reflected",
                       value |-> r.reflected[k]]]]

\* shockReflectivityScenario::afterPush
ShockAfterPush ==
    /\ UNCHANGED diffvars
    /\ scenario = "reflectivity"
    /\ Running
    /\ \E time \in TimeSamples :
         LET r == ShockLoop(particles, Len(particles), time)
         IN  /\ particles' = r.ps
             /\ transmitted' = transmitted \o r.transmitted
             /\ reflected' = reflected \o r.reflected
             /\ added' = added \o r.added
             /\ input' = [input EXCEPT !.time = time]
    /\ last' = "afterPush"
    /\ UNCHANGED <<scenario, out, files, saved, origin, ncalls, npush, err,
                   params>>

\* Histogram::save and Histogram::writeBovAscii: the files they leave
save(h, filename) ==
    [name |-> filename, data |-> h, index |-> 0, datafile |-> ""]
writeBovAscii(h, filename, index, datafilename) ==
    [name |-> filename, data |-> <<>>, index |-> index,
     datafile |-> datafilename]

\* a finalize whose second descriptor names the first data file
ShockFinalizeCrossed ==
    /\ UNCHANGED diffvars
    /\ scenario = "reflectivity"
    /\ Running
    /\ saved' = {save(transmitted, "transmitted.dat"),
                 writeBovAscii(transmitted, "transmitted.dat.bov", 0,
                               "transmitted.dat"),
                 save(reflected, "reflected.dat"),
                 writeBovAscii(reflected, "reflected.dat.bov", 0,
                               "transmitted.dat")}
    /\ last' = "finalize"
    /\ UNCHANGED <<err, params, input>>
    /\ UNCHANGED <<scenario, particles, transmitted, reflected, out, files,
                   origin, added, ncalls, npush>>

\* shockReflectivityScenario::finalize
ShockFinalize ==
    /\ UNCHANGED diffvars
    /\ scenario = "reflectivity"
    /\ Running
    /\ saved' = {save(transmitted, "transmitted.dat"),
                 writeBovAscii(transmitted, "transmitted.dat.bov", 0,
                               "transmitted.dat"),
                 save(reflected, "reflected.dat"),
                 writeBovAscii(reflected, "reflected.dat.bov", 0,
                               "reflected.dat")}
    /\ last' = "finalize"
    /\ UNCHANGED <<err, params, input>>
    /\ UNCHANGED <<scenario, particles, transmitted, reflected, out, files,
                   origin, added, ncalls, npush>>

-----------------------------------------------------------------------------
(* singleParticleScenario *)

\* the Field& V initialParticles is handed
VFields == {"rest", "flow", "shear"}

\* an initialParticles that samples V at the origin instead of at vpos
singleInitialParticlesAtOrigin(V) ==
    LET vpos == Vec3d(init_x, init_y, init_z)
    IN  <<Particle(mp, e, vpos, Field(V, ZeroVec))>>

\* singleParticleScenario::initialParticles
singleInitialParticles(V) ==
    LET vpos == Vec3d(init_x, init_y, init_z)
    IN  <<Particle(mp, e, vpos, Field(V, vpos))>>

\* the line "index time x0 x1 x2 v0 v1 v2" of the run log
LogLine(i, time, p) ==
    <<i, time, p.x[1], p.x[2], p.x[3], p.v[1], p.v[2], p.v[3]>>

\* an afterPush that logs the particle and then overwrites it with the
\* sentinel, as the absorbing scenarios do
SingleAfterPushDisables ==
    /\ UNCHANGED diffvars
    /\ scenario = "single"
    /\ Running
    /\ Len(out) + 1 <= MaxLines
    /\ \E time \in TimeSamples :
         out' = Append(out, LogLine(0, time, particles[1]))
    /\ particles' = [particles EXCEPT ![1].x = NaNPos, ![1].v = ZeroVec]
    /\ last' = "afterPush"
    /\ UNCHANGED <<err, params, input>>
    /\ UNCHANGED <<scenario, transmitted, reflected, files, saved,
                   origin, added, ncalls, npush>>

\* singleParticleScenario::afterPush
SingleAfterPush ==
    /\ UNCHANGED diffvars
    /\ scenario = "single"
    /\ Running
    /\ Len(out) + 1 <= MaxLines
    /\ \E time \in TimeSamples :
         out' = Append(out, LogLine(0, time, particles[1]))
    /\ last' = "afterPush"
    /\ UNCHANGED <<err, params, input>>
    /\ UNCHANGED <<scenario, particles, transmitted, reflected, files, saved,
                   origin, added, ncalls, npush>>

-----------------------------------------------------------------------------
(* distributionScenario *)

\* a loop that makes the generator anew in every iteration, so that every
\* particle gets the first sample
RECURSIVE DistInjectFirstSample(_, _)
DistInjectFirstSample(n, V) ==
    IF n = 0 THEN <<>>
    ELSE LET vpos == Vec3d(init_x, init_y, init_z)
             p == next_particle(random_seed, 0)
         IN  Append(DistInjectFirstSample(n - 1, V),
                    [p EXCEPT !.v = VAdd(p.v, Field(V, vpos)), !.x = vpos])

\* the particles after n iterations of the loop of initialParticles
RECURSIVE DistInject(_, _)
DistInject(n, V) ==
    IF n = 0 THEN <<>>
    ELSE LET vpos == Vec3d(init_x, init_y, init_z)
             p == next_particle(random_seed, n - 1)
         IN  Append(DistInject(n - 1, V),
                    [p EXCEPT !.v = VAdd(p.v, Field(V, vpos)), !.x = vpos])

\* distributionScenario::initialParticles
distInitialParticles(V) == DistInject(num_particles, V)

\* distributionScenario::newTimestep
DistNewTimestep ==
    /\ UNCHANGED diffvars
    /\ scenario = "distribution"
    /\ Running
    /\ ncalls < MaxSteps
    /\ files' = writeParticles(particles, PatternName(ncalls))
    /\ ncalls' = ncalls + 1
    /\ last' = "newTimestep"
    /\ UNCHANGED <<err, params, input>>
    /\ UNCHANGED <<scenario, particles, transmitted, reflected, out, saved,
                   origin, added, npush>>

\* distributionScenario::finalize
DistFinalize ==
    /\ UNCHANGED diffvars
    /\ scenario = "distribution"
    /\ Running
    /\ files' = writeParticles(particles, FinalName)
    /\ last' = "finalize"
    /\ UNCHANGED <<err, params, input>>
    /\ UNCHANGED <<scenario, particles, transmitted, reflected, out, saved,
                   origin, added, ncalls, npush>>

-----------------------------------------------------------------------------
(* analysatorScenario *)

\* the line analysatorScenario::initialParticles writes to std::cerr
ReadingPrompt == "Reading initial particle data from stdin"

\* a read loop that lacks the test of the stream after the extraction: a
\* record that could not be read in full becomes a particle, the numbers
\* that were not read being 0
RECURSIVE ReadParticlesUnchecked(_)
ReadParticlesUnchecked(tokens) ==
    IF Len(tokens) = 0 THEN <<>>
    ELSE LET t == [k \in 1..6 |-> IF k <= Len(tokens) THEN tokens[k] ELSE D(0)]
         IN  <<Particle(mp, e, Vec3d(t[1], t[2], t[3]),
                        Vec3d(t[4], t[5], t[6]))>> \o
             (IF Len(tokens) <= 6 THEN <<>>
              ELSE ReadParticlesUnchecked(SubSeq(tokens, 7, Len(tokens))))

\* analysatorScenario::initialParticles: the particles read from the
\* numbers left on standard input; the loop ends when six numbers cannot
\* be read
RECURSIVE ReadParticles(_)
ReadParticles(tokens) ==
    IF Len(tokens) < 6 THEN <<>>
    ELSE <<Particle(mp, e, Vec3d(tokens[1], tokens[2], tokens[3]),
                    Vec3d(tokens[4], tokens[5], tokens[6]))>> \o
         ReadParticles(SubSeq(tokens, 7, Len(tokens)))

\* contents of standard input: empty, one record, two records, two
\* records and a truncated third
StdinSamples ==
    {<<>>,
     <<D(1), D(0), D(0), D(1), D(0), D(0)>>,
     <<D(1), D(0), D(0), D(1), D(0), D(0),
       D(0), D(0), D(0), D(0), D(1), D(0)>>,
     <<D(1), D(0), D(0), D(1), D(0), D(0),
       D(0), D(0), D(0), D(0), D(1), D(0), D(1), D(2)>>}

\* the lines newTimestep prints for the first n particles
RECURSIVE LogLines(_, _, _)
LogLines(ps, n, time) ==
    IF n = 0 THEN <<>>
    ELSE Append(LogLines(ps, n - 1, time), LogLine(n - 1, time, ps[n]))

\* analysatorScenario::newTimestep
AnalysatorNewTimestep ==
    /\ UNCHANGED diffvars
    /\ scenario = "analysator"
    /\ Running
    /\ ncalls < MaxSteps
    /\ Len(out) + Len(particles) <= MaxLines
    /\ \E time \in TimeSamples :
         out' = out \o LogLines(particles, Len(particles), time)
    /\ ncalls' = ncalls + 1
    /\ last' = "newTimestep"
    /\ UNCHANGED <<err, params, input>>
    /\ UNCHANGED <<scenario, particles, transmitted, reflected, files, saved,
                   origin, added, npush>>

-----------------------------------------------------------------------------
(* Particle::push, called by the driver on one particle *)

\* the particles the driver is seen to push: the oldest and the newest
PushTargets == {1, Len(particles)} \cap (1..Len(particles))

Push ==
    /\ UNCHANGED diffvars
    /\ Running
    /\ npush < MaxPush
    /\ \E i \in PushTargets, s \in PushSamples :
         LET q == PushParticle(particles[i], s[1], s[2], s[3])
         IN  /\ InRangeVec(q.x) /\ InRangeVec(q.v)
             /\ particles' = [particles EXCEPT ![i] = q]
    /\ npush' = npush + 1
    /\ last' = "push"
    /\ UNCHANGED <<err, params, input>>
    /\ UNCHANGED <<scenario, transmitted, reflected, out, files, saved,
                   origin, added, ncalls>>

-----------------------------------------------------------------------------

-----------------------------------------------------------------------------
(* Particle::push on its own: one particle, inputs from the sample sets *)

BSamples == {Vec3d(D(0), D(0), D(0)), Vec3d(D(0), D(0), D(1)),
             Vec3d(D(1), D(0), D(0))}
ESamples == {Vec3d(D(0), D(0), D(0)), Vec3d(D(1), D(0), D(0)),
             Vec3d(D(0), D(-1), D(0))}
DtSamples == {D(1), D(2)}

\* particles handed to push: the disabled sentinel and active particles
PushInitial ==
    {Particle(mp, e, NaNPos, ZeroVec)} \cup
    {Particle(mp, e, x, v) :
        x \in {ZeroVec, Vec3d(D(1), D(-1), D(0))},
        v \in {ZeroVec, Vec3d(D(1), D(0), D(0)), Vec3d(D(0), D(1), D(0))}}

PushAny ==
    /\ UNCHANGED diffvars
    /\ npush < MaxPush
    /\ \E B \in BSamples, E \in ESamples, dt \in DtSamples :
         LET q == PushParticle(particles[1], B, E, dt)
         IN  /\ InRangeVec(q.x) /\ InRangeVec(q.v)
             /\ particles' = [particles EXCEPT ![1] = q]
    /\ npush' = npush + 1
    /\ last' = "push"
    /\ UNCHANGED <<err, params, input>>
    /\ UNCHANGED <<scenario, transmitted, reflected, out, files, saved,
                   origin, added, ncalls>>

InitPush ==
    /\ DiffIdle
    /\ scenario = "none"
    /\ particles \in {<<p>> : p \in PushInitial}
    /\ transmitted = <<>>
    /\ reflected = <<>>
    /\ out = <<>>
    /\ files = NoFile
    /\ saved = {}
    /\ origin = <<>>
    /\ added = <<>>
    /\ ncalls = 0
    /\ npush = 0
    /\ last = "none"
    /\ err = <<>>
    /\ params = DefaultParams
    /\ input = NoInput

NextPush == PushAny

SpecPush == InitPush /\ [][NextPush]_vars

-----------------------------------------------------------------------------
(* writeParticles on its own: any population, as the analysator scenario   *)
(* can read it from its input                                              *)

\* longest population handed to writeParticles
MaxLen == 3
\* writeParticles calls explored on one population
MaxWrites == 2

WriteSamples ==
    {Particle(mp, e, Vec3d(D(1), D(0), D(0)), Vec3d(D(1), D(0), D(0))),
     Particle(mp, e, ZeroVec, Vec3d(D(0), D(1), D(0))),
     Particle(mp, e, NaNPos, ZeroVec),
     Particle(mp, e, Vec3d(D(-2), D(1), D(0)), Vec3d(D(0), D(0), D(-1)))}

\* one writeParticles call, with either outcome of each writeArray
WriteSnapshot ==
    /\ UNCHANGED diffvars
    /\ last # "initialParticles"
    /\ ncalls < MaxWrites
    /\ \E ok \in WriteOutcomes :
         LET r == writeParticlesOutcome(particles, PatternName(ncalls), ok)
         IN  /\ files' = r.file
             /\ err' = err \o r.err
    /\ input' = [input EXCEPT !.p = particles]
    /\ ncalls' = ncalls + 1
    /\ last' = "writeParticles"
    /\ UNCHANGED <<scenario, particles, transmitted, reflected, out, saved,
                   origin, added, npush, params>>

InitWrite ==
    /\ DiffIdle
    /\ scenario = "none"
    /\ particles \in UNION {[1..n -> WriteSamples] : n \in 0..MaxLen}
    /\ transmitted = <<>>
    /\ reflected = <<>>
    /\ out = <<>>
    /\ files = NoFile
    /\ saved = {}
    /\ origin = <<>>
    /\ added = <<>>
    /\ ncalls = 0
    /\ npush = 0
    /\ last = "none"
    /\ err = <<>>
    /\ params = DefaultParams
    /\ input = NoInput

\* the text a written file is turned into for the analysator scenario:
\* one record per row, the position row followed by the velocity row of
\* the same index; every finite number is printed in full
RECURSIVE Records(_, _, _)
Records(pos, vel, n) ==
    IF n = 0 THEN <<>>
    ELSE Records(pos, vel, n - 1) \o pos[n] \o vel[n]

\* the numbers operator>> extracts from tokens: the text of a NaN is
\* either extracted as NaN (accept_nan) or makes the extraction fail, which
\* ends the reading there
RECURSIVE Readable(_, _)
Readable(tokens, accept_nan) ==
    IF tokens = <<>> THEN <<>>
    ELSE IF isnan(Head(tokens)) /\ ~accept_nan THEN <<>>
    ELSE <<Head(tokens)>> \o Readable(Tail(tokens), accept_nan)

\* the snapshot written last, both arrays of it, is fed to
\* analysatorScenario::initialParticles
ReadBack ==
    /\ UNCHANGED diffvars
    /\ last = "writeParticles"
    /\ files.written = {"proton_position", "proton_velocity"}
    /\ LET tokens == Records(files.proton_position, files.proton_velocity,
                             Len(files.proton_position))
       IN  /\ input' = [input EXCEPT !.stdin = tokens]
           /\ \E accept_nan \in BOOLEAN :
                 particles' = ReadParticles(Readable(tokens, accept_nan))
    /\ err' = Append(err, ReadingPrompt)
    /\ last' = "initialParticles"
    /\ UNCHANGED <<scenario, transmitted, reflected, out, files, saved,
                   origin, added, ncalls, npush, params>>

NextWrite == WriteSnapshot \/ ReadBack

SpecWrite == InitWrite /\ [][NextWrite]_vars

-----------------------------------------------------------------------------
(* The scenario runs *)

\* the names createScenario registers in scenario_lookup
Scenarios ==
    {"single", "distribution", "precipitation", "analysator", "reflectivity"}

\* names createScenario is called with: the registered ones, the empty
\* name, a registered name in another case and an unregistered name
NameSamples == Scenarios \cup {"", "Single", "shock"}

\* the line createScenario writes to std::cerr for a name it cannot find
UnknownMode == "Error: can't find particle pusher mode. Aborting."

\* a createScenario that falls back to the first registered scenario
createScenarioFallback(name) ==
    IF name \in Scenarios
    THEN [scenario |-> name, err |-> <<>>, exited |-> FALSE]
    ELSE [scenario |-> "single", err |-> <<UnknownMode>>, exited |-> FALSE]

\* createScenario(name): the scenario returned, the lines on std::cerr and
\* whether exit() was called
createScenario(name) ==
    IF name \in Scenarios
    THEN [scenario |-> name, err |-> <<>>, exited |-> FALSE]
    ELSE [scenario |-> "none", err |-> <<UnknownMode>>, exited |-> TRUE]

\* the driver creates the scenario the run is configured with
CreateScenario ==
    /\ UNCHANGED diffvars
    /\ last = "none"
    /\ \E name \in NameSamples :
         LET r == createScenario(name)
         IN  /\ params = DefaultParams \/ name = "precipitation"
             /\ scenario' = r.scenario
             /\ err' = err \o r.err
             /\ last' = IF r.exited THEN "exit" ELSE "createScenario"
             /\ input' = [input EXCEPT !.name = name]
    /\ UNCHANGED <<particles, transmitted, reflected, out, files, saved,
                   origin, added, ncalls, npush, params>>

\* initialParticles of scenario s, handed the field V, with tokens on
\* standard input; the hook defaults to an empty population
initialParticles(s, V, tokens) ==
    CASE s = "single" -> singleInitialParticles(V)
      [] s = "distribution" -> distInitialParticles(V)
      [] s = "analysator" -> ReadParticles(tokens)
      [] OTHER -> <<>>

\* the driver asks the scenario for the initial population
InitialParticles ==
    /\ UNCHANGED diffvars
    /\ last = "createScenario"
    /\ \E V \in VFields, tokens \in StdinSamples :
         /\ particles' = initialParticles(scenario, V, tokens)
         /\ input' = [input EXCEPT
                !.V = IF scenario \in {"single", "distribution"}
                      THEN V ELSE "",
                !.stdin = IF scenario = "analysator" THEN tokens ELSE <<>>]
    /\ err' = IF scenario = "analysator"
              THEN Append(err, ReadingPrompt) ELSE err
    /\ last' = "initialParticles"
    /\ UNCHANGED <<scenario, transmitted, reflected, out, files, saved,
                   origin, added, ncalls, npush, params>>

Init ==
    /\ DiffIdle
    /\ scenario = "none"
    /\ particles = <<>>
    /\ transmitted = <<>>
    /\ reflected = <<>>
    /\ out = <<>>
    /\ files = NoFile
    /\ saved = {}
    /\ origin = <<>>
    /\ added = <<>>
    /\ ncalls = 0
    /\ npush = 0
    /\ last = "none"
    /\ err = <<>>
    /\ params \in {DefaultParams, WideParams}
    /\ input = NoInput

Next ==
    \/ CreateScenario
    \/ InitialParticles
    \/ PrecipNewTimestep
    \/ PrecipAfterPush
    \/ ShockNewTimestep
    \/ ShockAfterPush
    \/ ShockFinalize
    \/ SingleAfterPush
    \/ DistNewTimestep
    \/ DistFinalize
    \/ AnalysatorNewTimestep
    \/ Push

Spec == Init /\ [][Next]_vars

-----------------------------------------------------------------------------
(* vlsvdiff: statistics and distances of datasets                          *)
(*                                                                         *)
(* A dataset is the map<uint, Real> convertSILO fills: here the sequence   *)
(* of its [id, value] entries in the order of the ids, the order a map is  *)
(* iterated in.                                                            *)

\* numeric_limits<Real>::max(): above every number of the model
Real_max == 999999999
\* numeric_limits<Real>::min(): the smallest positive normal Real, a value
\* of its own that lies between 0 and the smallest positive number of the
\* model
Real_min == 1000000001

\* operator< on Real, Real_min placed between 0 and 1 / Scale
RealLess(a, b) ==
    LET RealOrd(x) == IF x = Real_min THEN 1 ELSE 2 * x
    IN  ~isnan(a) /\ ~isnan(b) /\ RealOrd(a) < RealOrd(b)

\* std::min and std::max
min(a, b) == IF RealLess(b, a) THEN b ELSE a
max(a, b) == IF RealLess(a, b) THEN b ELSE a

\* abs on Real
abs(a) == IF isnan(a) THEN NaN ELSE Abs(a)

\* pow with the exponents vlsvdiff uses: 1, 2 and 1 / 2
pow(x, y) ==
    CASE y = D(1) -> x
      [] y = D(2) -> FMul(x, x)
      [] y = FDiv(D(1), D(2)) -> FSqrt(x)

\* map::at and map::count
at(data, id) == (CHOOSE k \in 1..Len(data) : data[k].id = id)
has(data, id) == \E k \in 1..Len(data) : data[k].id = id

\* the first loop of singleStatistics after n entries
RECURSIVE StatisticsLoop(_, _)
StatisticsLoop(orderedData, n) ==
    IF n = 0 THEN [mini |-> Real_max, maxi |-> Real_min, avg |-> D(0)]
    ELSE LET s == StatisticsLoop(orderedData, n - 1)
             v == orderedData[n].value
         IN  [mini |-> min(s.mini, v), maxi |-> max(s.maxi, v),
              avg |-> FAdd(s.avg, v)]

\* the second loop of singleStatistics after n entries
RECURSIVE DeviationLoop(_, _, _)
DeviationLoop(orderedData, n, avg) ==
    IF n = 0 THEN D(0)
    ELSE FAdd(DeviationLoop(orderedData, n - 1, avg),
              pow(FSub(orderedData[n].value, avg), D(2)))

\* singleStatistics: what it leaves in *size, *mini, *maxi, *avg, *stdev
singleStatistics(orderedData) ==
    LET size == D(Len(orderedData))
        s == StatisticsLoop(orderedData, Len(orderedData))
        avg == FDiv(s.avg, size)
        stdev == FSqrt(DeviationLoop(orderedData, Len(orderedData), avg))
    IN  [size |-> size, mini |-> s.mini, maxi |-> s.maxi, avg |-> avg,
         stdev |-> FDiv(stdev, FSub(size, D(1)))]

\* the sum of the first n values of a dataset
RECURSIVE SumValues(_, _)
SumValues(data, n) ==
    IF n = 0 THEN D(0) ELSE FAdd(SumValues(data, n - 1), data[n].value)

\* shiftAverage: the dataset left in shiftedData2; both loops run over
\* orderedData2, both averages are divided by the size of orderedData1
shiftAverage(orderedData1, orderedData2) ==
    LET avg1 == FDiv(SumValues(orderedData1, Len(orderedData2)),
                     D(Len(orderedData1)))
        avg2 == FDiv(SumValues(orderedData2, Len(orderedData2)),
                     D(Len(orderedData1)))
    IN  [k \in 1..Len(orderedData2) |->
            [id |-> orderedData2[k].id,
             value |-> FAdd(FSub(orderedData2[k].value, avg2), avg1)]]

\* the loop of pDistance over the first n entries of orderedData1, for
\* p # 0 (sums of powers) and for p = 0 (maxima)
RECURSIVE DistanceLoop(_, _, _, _)
DistanceLoop(orderedData1, data2, n, p) ==
    IF n = 0 THEN [absolute |-> D(0), length |-> D(0)]
    ELSE LET s == DistanceLoop(orderedData1, data2, n - 1, p)
             v1 == orderedData1[n].value
             v2 == data2[at(data2, orderedData1[n].id)].value
         IN  IF p # D(0)
             THEN [absolute |-> FAdd(s.absolute, pow(abs(FSub(v1, v2)), p)),
                   length |-> FAdd(s.length, pow(abs(v1), p))]
             ELSE [absolute |-> max(s.absolute, abs(FSub(v1, v2))),
                   length |-> max(s.length, abs(v1))]

\* a line of standard output: its text and the numbers printed on it
Line(text, values) == [text |-> text, values |-> values]

\* pDistance: what it leaves in *absolute and *relative and prints, or
\* thrown when map::at is given an id the second dataset does not hold
pDistance(orderedData1, orderedData2, p, doShiftAverage) ==
    LET data2 == IF doShiftAverage
                 THEN shiftAverage(orderedData1, orderedData2)
                 ELSE orderedData2
        thrown == \E k \in 1..Len(orderedData1) :
                      ~has(data2, orderedData1[k].id)
        s == DistanceLoop(orderedData1, data2, Len(orderedData1), p)
        absolute == IF p # D(0) THEN pow(s.absolute, FDiv(D(1), p))
                    ELSE s.absolute
        length == IF p # D(0) THEN pow(s.length, FDiv(D(1), p)) ELSE s.length
    IN  IF thrown
        THEN [thrown |-> TRUE, absolute |-> D(0), relative |-> D(0),
              cout |-> <<>>]
        ELSE IF length # D(0)
        THEN [thrown |-> FALSE, absolute |-> absolute,
              relative |-> FDiv(absolute, length), cout |-> <<>>]
        ELSE [thrown |-> FALSE, absolute |-> absolute, relative |-> D(-1),
              cout |-> <<Line(
                  "WARNING (pDistance) : length of reference is 0.0, cannot divide to give relative distance.",
                  <<>>)>>]

-----------------------------------------------------------------------------
(* vlsvdiff: output of the statistics and distances                        *)

\* the statics of outputStats, outputDistance and printNonVerboseData
Statics(ps, fn, fod, h) ==
    [pairStats |-> ps, fileNumber |-> fn, fileOutputData |-> fod,
     header |-> h]

\* outputStats with the number of the file in the place of the number of
\* the pair
outputStatsNumbersFiles(s, verboseOutput, st) ==
    IF verboseOutput
    THEN [cout |-> <<Line("Statistics on file",
                          <<s.size, s.mini, s.maxi, s.avg, s.stdev>>)>>,
          st |-> st]
    ELSE [cout |-> <<>>,
          st |-> [st EXCEPT
                    !.pairStats =
                        (IF st.fileNumber % 2 = 0
                         THEN Append(@, D(st.fileNumber + 1))
                         ELSE @) \o
                        <<s.size, s.mini, s.maxi, s.avg, s.stdev>>,
                    !.fileNumber = @ + 1]]

\* outputStats(size, mini, maxi, avg, stdev, verboseOutput, false): the
\* line printed and the statics afterwards
outputStats(s, verboseOutput, st) ==
    IF verboseOutput
    THEN [cout |-> <<Line("Statistics on file",
                          <<s.size, s.mini, s.maxi, s.avg, s.stdev>>)>>,
          st |-> st]
    ELSE [cout |-> <<>>,
          st |-> [st EXCEPT
                    !.pairStats =
                        (IF st.fileNumber % 2 = 0
                         THEN Append(@, D(st.fileNumber \div 2 + 1))
                         ELSE @) \o
                        <<s.size, s.mini, s.maxi, s.avg, s.stdev>>,
                    !.fileNumber = @ + 1]]

\* outputDistance(p, absolute, relative, shiftedAverage, verboseOutput,
\* false): the lines printed and the statics afterwards
outputDistance(p, absolute, relative, shiftedAverage, verboseOutput, st) ==
    IF verboseOutput
    THEN [cout |->
            IF ~shiftedAverage
            THEN <<Line("The absolute p-distance between both datasets is",
                        <<p, absolute>>),
                   Line("The relative p-distance between both datasets is",
                        <<p, relative>>)>>
            ELSE <<Line("The average-shifted absolute p-distance between both datasets is",
                        <<p, absolute>>),
                   Line("The average-shifted relative p-distance between both datasets is",
                        <<p, relative>>)>>,
          st |-> st]
    ELSE [cout |-> <<>>,
          st |-> [st EXCEPT !.fileOutputData = @ \o <<absolute, relative>>]]

\* the key to the columns printNonVerboseData prints on its first call
ColumnKey ==
    <<"#1   File number in folder",
      "#2   File 1 size",
      "#3   File 1 min",
      "#4   File 1 max",
      "#5   File 1 average",
      "#6   File 1 standard deviation",
      "#7   File 2 size",
      "#8   File 2 min",
      "#9   File 2 max",
      "#10  File 2 average",
      "#11  File 2 standard deviation",
      "#12  absolute infinity-distance",
      "#13  relative infinity-distance",
      "#14  absolute average-shifted infinity-distance",
      "#15  relative average-shifted infinity-distance",
      "#16  absolute 1-distance",
      "#17  relative 1-distance",
      "#18  absolute average-shifted 1-distance",
      "#19  relative average-shifted 1-distance",
      "#20  absolute 2-distance",
      "#21  relative 2-distance",
      "#22  absolute average-shifted 2-distance",
      "#23  relative average-shifted 2-distance">>

\* printNonVerboseData: the lines of the key when header is set, the
\* values the two lastCall calls print on the line that follows, the
\* stored statistics before the stored distances, and the statics
\* afterwards
printNonVerboseData(st) ==
    [cout |-> IF st.header
              THEN [k \in 1..Len(ColumnKey) |-> Line(ColumnKey[k], <<>>)] \o
                   <<Line("", <<>>)>>
              ELSE <<>>,
     values |-> st.pairStats \o st.fileOutputData,
     st |-> [st EXCEPT !.header = FALSE, !.pairStats = <<>>,
                       !.fileOutputData = <<>>]]

\* the six pDistance calls of process2Files in order: <<p, doShiftAverage>>
DistanceCalls ==
    <<<<D(0), FALSE>>, <<D(0), TRUE>>, <<D(1), FALSE>>, <<D(1), TRUE>>,
      <<D(2), FALSE>>, <<D(2), TRUE>>>>

\* a singleStatistics / outputStats call of process2Files after done, which
\* tells what the call has done so far: whether an exception was thrown,
\* the lines printed and the statics
StatisticsPass(orderedData, verboseOutput, done) ==
    LET o == outputStats(singleStatistics(orderedData), verboseOutput,
                         done.st)
    IN  [done EXCEPT !.cout = @ \o o.cout, !.st = o.st]

\* the first n pDistance / outputDistance calls of process2Files after
\* before: a call that throws ends the pass
RECURSIVE DistancePass(_, _, _, _, _)
DistancePass(orderedData1, orderedData2, n, verboseOutput, before) ==
    IF n = 0 THEN before
    ELSE LET done == DistancePass(orderedData1, orderedData2, n - 1,
                                  verboseOutput, before)
             c == DistanceCalls[n]
             d == pDistance(orderedData1, orderedData2, c[1], c[2])
             o == outputDistance(c[1], d.absolute, d.relative, c[2],
                                 verboseOutput, done.st)
         IN  IF done.thrown THEN done
             ELSE IF d.thrown THEN [done EXCEPT !.thrown = TRUE]
             ELSE [thrown |-> FALSE, cout |-> done.cout \o d.cout \o o.cout,
                   st |-> o.st]


\* what a path given to process2Files holds, as the readers report it:
\* whether open succeeds, the version parameter ("1.00", "none" for a file
\* of the old library, "other") and the dataset of the variable
File(opens, version, data) ==
    [opens |-> opens, version |-> version, data |-> data]

\* the end of process2Files in the non-verbose mode: the lines and the
\* statics printNonVerboseData leaves and the end of line after them
NonVerboseReturn(done, pr) ==
    [ret |-> "return 0",
     cout |-> done.cout \o pr.cout \o <<Line("", pr.values)>>,
     cerr |-> <<>>, st |-> pr.st]

\* how process2Files ends after the statistics and the distances
Compared(verboseOutput, done) ==
    IF done.thrown
    THEN [ret |-> "abort", cout |-> done.cout, cerr |-> <<>>,
          st |-> done.st]
    ELSE IF verboseOutput
    THEN [ret |-> "return 0", cout |-> done.cout, cerr |-> <<>>,
          st |-> done.st]
    ELSE NonVerboseReturn(done, printNonVerboseData(done.st))

\* process2Files(fileName1, fileName2, varToExtract, compToExtract,
\* verboseOutput): ret tells how the call ended: "return 0", "return 1",
\* "exit 1" when exit(1) was called, "abort" when an exception left the
\* function; cout and cerr are the lines written, st the statics afterwards
process2Files(file1, file2, verboseOutput, st) ==
    IF file1.version = "other" \/ file2.version = "other"
    THEN [ret |-> "exit 1", cout |-> <<>>, cerr |-> <<"Invalid version!">>,
          st |-> st]
    ELSE IF ~file1.opens
    THEN [ret |-> "return 1", cout |-> <<>>,
          cerr |-> <<"Failed to open",
                     "ERROR Data import error with fileName1">>,
          st |-> st]
    ELSE IF ~file2.opens
    THEN [ret |-> "return 1", cout |-> <<>>,
          cerr |-> <<"Failed to open",
                     "ERROR Data import error with fileName2">>,
          st |-> st]
    ELSE IF Len(file1.data) # Len(file2.data)
    THEN [ret |-> "return 1", cout |-> <<>>,
          cerr |-> <<"ERROR Datasets have different size.">>,
          st |-> st]
    ELSE Compared(verboseOutput,
             DistancePass(file1.data, file2.data, Len(DistanceCalls),
                 verboseOutput,
                 StatisticsPass(file2.data, verboseOutput,
                     StatisticsPass(file1.data, verboseOutput,
                     [thrown |-> FALSE, cout |-> <<>>, st |-> st]))))

-----------------------------------------------------------------------------
(* vlsvdiff: main                                                          *)

\* largest number of entries of a directory
MaxFiles == 2

\* a std::string is the sequence of its character codes
mask == <<103, 114, 105, 100>>
suffix == <<46, 118, 108, 115, 118>>

\* the name "grid.<digits>.vlsv"
GridName(digits) == mask \o <<46>> \o digits \o suffix
\* "notes"
Notes == <<110, 111, 116, 101, 115>>

\* string::find(t) != string::npos
found(s, t) ==
    \E i \in 0..(Len(s) - Len(t)) : SubSeq(s, i + 1, i + Len(t)) = t

\* operator< on std::string: the order std::set<string> keeps
RECURSIVE StringLess(_, _)
StringLess(a, b) ==
    IF b = <<>> THEN FALSE
    ELSE IF a = <<>> THEN TRUE
    ELSE IF Head(a) # Head(b) THEN Head(a) < Head(b)
    ELSE StringLess(Tail(a), Tail(b))

\* the elements of a std::set<string> in the order it is iterated in
RECURSIVE Sorted(_)
Sorted(S) ==
    IF S = {} THEN <<>>
    ELSE LET first == CHOOSE x \in S : \A y \in S : y = x \/ StringLess(x, y)
         IN  <<first>> \o Sorted(S \ {first})


\* processDirectory(dir, fileList): the names left in fileList and the
\* line printed; entries maps the names readdir returns to the files
processDirectory(entries) ==
    LET matching == {n \in DOMAIN entries : found(n, mask) /\ found(n, suffix)}
    IN  [fileList |-> Sorted(matching),
         cout |-> IF matching = {}
                  THEN <<Line("INFO no matches found", <<>>)>>
                  ELSE <<>>]

\* datasets: values of both signs, positive values, negative values,
\* zeros, a dataset of another size, one with other ids and an empty one
Data ==
    [mixed |-> <<[id |-> 1, value |-> D(1)], [id |-> 2, value |-> D(-2)]>>,
     positive |-> <<[id |-> 1, value |-> D(2)], [id |-> 2, value |-> D(1)]>>,
     negative |-> <<[id |-> 1, value |-> D(-1)], [id |-> 2, value |-> D(-3)]>>,
     zero |-> <<[id |-> 1, value |-> D(0)], [id |-> 2, value |-> D(0)]>>,
     short |-> <<[id |-> 1, value |-> D(2)]>>,
     shifted |-> <<[id |-> 2, value |-> D(1)], [id |-> 3, value |-> D(1)]>>,
     empty |-> <<>>]

Unreadable == File(FALSE, "none", <<>>)

\* files given to vlsvdiff by name
FileSamples ==
    {File(TRUE, "1.00", d) :
        d \in {Data.mixed, Data.positive, Data.negative, Data.zero, Data.short,
               Data.shifted, Data.empty}} \cup
    {File(TRUE, "none", Data.positive), Unreadable,
     File(TRUE, "other", Data.mixed)}

\* files found in the first and in the second directory
DirSamples1 == {File(TRUE, "1.00", Data.mixed), File(TRUE, "1.00", Data.zero),
                File(TRUE, "other", Data.mixed)}
DirSamples2 == {File(TRUE, "1.00", Data.positive), Unreadable,
                File(TRUE, "1.00", Data.shifted)}

\* the directories of at most MaxFiles entries whose grid files are in K;
\* an entry of another name is not a readable file
Dirs(K) ==
    UNION {{f \in [S -> K \cup {Unreadable}] :
               \A n \in S : n = Notes => f[n] = Unreadable} :
           S \in {T \in SUBSET {GridName(<<49>>), GridName(<<49, 48>>),
                                   GridName(<<50>>), Notes} :
                     Cardinality(T) <= MaxFiles}}

\* what a path names: a directory (opendir succeeds) with its entries, or
\* something else
Dir(entries) == [isdir |-> TRUE, entries |-> entries, file |-> Unreadable]
Plain(file) == [isdir |-> FALSE, entries |-> <<>>, file |-> file]

\* args[1] and args[2]; no path stands for a call with too few arguments
ArgSamples ==
    {<<>>} \cup
    {<<Plain(f1), Plain(f2)>> : f1 \in FileSamples, f2 \in FileSamples} \cup
    {<<Dir(e1), Dir(e2)>> : e1 \in Dirs(DirSamples1), e2 \in Dirs(DirSamples2)}
    \cup
    {<<Plain(File(TRUE, "1.00", Data.short)), Dir(d)>> :
        d \in Dirs({File(TRUE, "1.00", Data.short)})} \cup
    {<<Dir(d), Plain(File(TRUE, "1.00", Data.short))>> :
        d \in Dirs({File(TRUE, "1.00", Data.positive)})}


\* a process2Files call of main that ended as r tells: the state takes
\* the statics, the lines and the record of the call; a call that does not
\* return ends the run
CallProcess2Files(r, file1, file2, lines, rank, next) ==
    /\ out' = out \o lines \o r.cout
    /\ err' = err \o r.cerr
    /\ pairStats' = r.st.pairStats
    /\ fileNumber' = r.st.fileNumber
    /\ fileOutputData' = r.st.fileOutputData
    /\ header' = r.st.header
    /\ calls' = Append(calls, [file1 |-> file1, file2 |-> file2,
                               rank |-> rank, ret |-> r.ret])
    /\ pc' = IF r.ret \in {"exit 1", "abort"} THEN r.ret ELSE next

\* main up to the loops: the usage text, the comparison of two files, or
\* the file lists of the directories
Main ==
    /\ pc = "start"
    /\ IF Len(args) < 2
       THEN /\ out' = Append(out, Line(
                 "USAGE 1: ./vlsvdiff <file1> <file2> <Variable> <component>",
                 <<>>))
            /\ pc' = "return 1"
            /\ UNCHANGED <<err, fileList1, fileList2, pairStats, fileNumber,
                           fileOutputData, header, calls>>
       ELSE IF ~args[1].isdir /\ ~args[2].isdir
       THEN /\ CallProcess2Files(
                 process2Files(args[1].file, args[2].file, TRUE,
                               Statics(pairStats, fileNumber, fileOutputData,
                                       header)),
                 args[1].file, args[2].file, <<Line("INFO Reading in two files.", <<>>)>>, 0,
                 "return 0")
            /\ UNCHANGED <<fileList1, fileList2>>
       ELSE IF ~args[1].isdir \/ ~args[2].isdir
       THEN /\ LET d == IF args[1].isdir
                        THEN processDirectory(args[1].entries)
                        ELSE processDirectory(args[2].entries)
               IN  /\ out' = out \o
                              <<Line("#INFO Reading in one file and one directory.",
                                     <<>>)>> \o d.cout
                   /\ fileList1' = IF args[1].isdir THEN d.fileList ELSE <<>>
                   /\ fileList2' = IF args[2].isdir THEN d.fileList ELSE <<>>
            /\ pc' = "mixed"
            /\ UNCHANGED <<err, pairStats, fileNumber, fileOutputData,
                           header, calls>>
       ELSE LET d1 == processDirectory(args[1].entries)
                d2 == processDirectory(args[2].entries)
            IN  /\ out' = out \o <<Line("#INFO Reading in two directories.", <<>>)>> \o d1.cout \o
                          d2.cout
                /\ fileList1' = d1.fileList
                /\ fileList2' = d2.fileList
                /\ IF Len(d1.fileList) # Len(d2.fileList)
                   THEN err' = Append(err, "ERROR Folders have different number of files.") /\
                        pc' = "return 1"
                   ELSE err' = err /\ pc' = "dirs"
                /\ UNCHANGED <<pairStats, fileNumber, fileOutputData, header,
                               calls>>
    /\ UNCHANGED <<args, it1, it2>>
    /\ UNCHANGED tracervars

\* the loop over two directories with it1 left where it is
ProcessPairKeepsIt1 ==
    /\ pc = "dirs"
    /\ it2 # Len(fileList2)
    /\ \E discarded \in BOOLEAN :
         CallProcess2Files(
             process2Files(args[1].entries[fileList1[it1 + 1]],
                           args[2].entries[fileList2[it2 + 1]], FALSE,
                           Statics(pairStats, fileNumber, fileOutputData, header)),
             args[1].entries[fileList1[it1 + 1]],
             args[2].entries[fileList2[it2 + 1]], <<>>, it2 + 1, "dirs")
    /\ it1' = it1
    /\ it2' = it2 + 1
    /\ UNCHANGED <<args, fileList1, fileList2>>
    /\ UNCHANGED tracervars

\* one iteration of the loop over two directories. The loop goes on while
\* it2 != fileList2.end(); what it1 != fileList2.end(), the left operand
\* of the comma, evaluates to has no effect
ProcessPair ==
    /\ pc = "dirs"
    /\ it2 # Len(fileList2)
    /\ \E discarded \in BOOLEAN :
         CallProcess2Files(
             process2Files(args[1].entries[fileList1[it1 + 1]],
                           args[2].entries[fileList2[it2 + 1]], FALSE,
                           Statics(pairStats, fileNumber, fileOutputData, header)),
             args[1].entries[fileList1[it1 + 1]],
             args[2].entries[fileList2[it2 + 1]], <<>>, it2 + 1, "dirs")
    /\ it1' = it1 + 1
    /\ it2' = it2 + 1
    /\ UNCHANGED <<args, fileList1, fileList2>>
    /\ UNCHANGED tracervars

\* one iteration of the loop over one directory, the other path being
\* given to every call
ProcessFile ==
    /\ pc = "mixed"
    /\ IF args[1].isdir
       THEN /\ it1 # Len(fileList1)
            /\ CallProcess2Files(
                 process2Files(args[1].entries[fileList1[it1 + 1]],
                               args[2].file, FALSE,
                               Statics(pairStats, fileNumber, fileOutputData,
                                       header)),
                 args[1].entries[fileList1[it1 + 1]], args[2].file, <<>>,
                 it1 + 1, "mixed")
            /\ it1' = it1 + 1
            /\ it2' = it2
       ELSE /\ it2 # Len(fileList2)
            /\ CallProcess2Files(
                 process2Files(args[1].file,
                               args[2].entries[fileList2[it2 + 1]], FALSE,
                               Statics(pairStats, fileNumber, fileOutputData,
                                       header)),
                 args[1].file, args[2].entries[fileList2[it2 + 1]], <<>>,
                 it2 + 1, "mixed")
            /\ it2' = it2 + 1
            /\ it1' = it1
    /\ UNCHANGED <<args, fileList1, fileList2>>
    /\ UNCHANGED tracervars

\* the end of a loop: the directories are closed and main returns, 1 after
\* the loop over one directory, 0 after the loop over two
Return ==
    /\ \/ pc = "dirs" /\ it2 = Len(fileList2) /\ pc' = "return 0"
       \/ pc = "mixed" /\ args[1].isdir /\ it1 = Len(fileList1) /\
          pc' = "return 1"
       \/ pc = "mixed" /\ args[2].isdir /\ it2 = Len(fileList2) /\
          pc' = "return 1"
    /\ UNCHANGED <<out, err, args, fileList1, fileList2, it1, it2, pairStats,
                   fileNumber, fileOutputData, header, calls>>
    /\ UNCHANGED tracervars

\* the tracer is another program: its state is that of a run not started
TracerIdle ==
    /\ scenario = "none"
    /\ particles = <<>>
    /\ transmitted = <<>>
    /\ reflected = <<>>
    /\ files = NoFile
    /\ saved = {}
    /\ origin = <<>>
    /\ added = <<>>
    /\ ncalls = 0
    /\ npush = 0
    /\ last = "none"
    /\ params = DefaultParams
    /\ input = NoInput

InitDiff ==
    /\ TracerIdle
    /\ out = <<>>
    /\ err = <<>>
    /\ args \in ArgSamples
    /\ fileList1 = <<>>
    /\ fileList2 = <<>>
    /\ it1 = 0
    /\ it2 = 0
    /\ pc = "start"
    /\ pairStats = <<>>
    /\ fileNumber = 0
    /\ fileOutputData = <<>>
    /\ header = TRUE
    /\ calls = <<>>

NextDiff == Main \/ ProcessPair \/ ProcessFile \/ Return

SpecDiff == InitDiff /\ [][NextDiff]_vars

-----------------------------------------------------------------------------
(* Properties *)

Active(p) == ~Disabled(p)

\* C1: in the shockReflectivity scenario no particle index is the subject
\* of more than one addValue call, whichever histogram the calls went to,
\* and the two histograms hold exactly the values of those calls
C1_RecordedAtMostOnce ==
    scenario = "reflectivity" =>
        /\ \A a, b \in 1..Len(added) : a # b => added[a].i # added[b].i
        /\ Len(transmitted) + Len(reflected) = Len(added)

\* a recorded particle was pushed in a field after it was disabled (its
\* velocity is no longer zero) and afterPush has run again since
C1_Witness ==
    /\ scenario = "reflectivity"
    /\ last = "afterPush"
    /\ \E k \in 1..Len(added) :
         /\ Disabled(particles[added[k].i + 1])
         /\ particles[added[k].i + 1].v # ZeroVec

\* C2: in every step of a precipitation or shockReflectivity run, a
\* particle that satisfies isnan(length(x)) before the step satisfies it
\* after the step, at the same index
C2_DisabledIsTerminal ==
    [][\A i \in 1..Len(particles) :
          Disabled(particles[i]) =>
              i <= Len(particles') /\ Disabled(particles'[i])]_vars

\* a precipitation particle that was disabled and then pushed in a field
C2_Witness ==
    /\ scenario = "precipitation"
    /\ last = "push"
    /\ \E i \in 1..Len(particles) :
         Disabled(particles[i]) /\ particles[i].v # ZeroVec

\* the particle is the sentinel afterPush writes
IsSentinel(p) == p.x = NaNPos /\ p.v = ZeroVec

\* C3: a push of a particle that is the sentinel (x = (NaN,0,0),
\* v = (0,0,0)) leaves its position NaN and its velocity (0,0,0)
C3_PushKeepsSentinel ==
    [][\A i \in 1..Len(particles) :
          (IsSentinel(particles[i]) /\ last' = "push") =>
              /\ isnan(vector_length(particles'[i].x))
              /\ particles'[i].v = ZeroVec]_vars

\* line l of the event log reports a precipitated particle (its last
\* field is an energy), not the lost marker -1
IsPrecipitatedLine(l) == FLe(D(0), l[5])

\* C4: in a step of precipitationScenario::afterPush, every particle that
\* is active with |x| <= precip_inner_boundary before the step is the
\* sentinel after it, and the step prints a precipitated line for its index
C4_InnerBoundaryDisables ==
    [][(scenario = "precipitation" /\ last' = "afterPush") =>
          \A i \in 1..Len(particles) :
              (Active(particles[i]) /\
               FLe(vector_length(particles[i].x), precip_inner_boundary)) =>
                  /\ IsSentinel(particles'[i])
                  /\ \E k \in (Len(out) + 1)..Len(out') :
                        out'[k][1] = i - 1 /\ IsPrecipitatedLine(out'[k])]_vars

\* afterPush has just printed a precipitated line for a particle that
\* is now the sentinel
C4_Witness ==
    /\ scenario = "precipitation"
    /\ last = "afterPush"
    /\ \E k \in 1..Len(out) :
         /\ IsPrecipitatedLine(out[k])
         /\ IsSentinel(particles[out[k][1] + 1])

\* C5: in a precipitation run, a particle that is active before a step is
\* disabled by the step, or has a line printed for its index by the step,
\* only if the step is afterPush and the particle was within the inner
\* boundary or at or below the outer threshold precip_start_x
C5_NoCrossingNoEvent ==
    [][scenario = "precipitation" =>
          \A i \in 1..Len(particles) :
              (Active(particles[i]) /\
               (Disabled(particles'[i]) \/
                \E k \in (Len(out) + 1)..Len(out') : out'[k][1] = i - 1)) =>
                  /\ last' = "afterPush"
                  /\ \/ FLe(vector_length(particles[i].x),
                            precip_inner_boundary)
                     \/ FLe(particles[i].x[1], precip_start_x)]_vars

\* afterPush has just run and left active a particle that has moved away
\* from where it was injected
C5_Witness ==
    /\ scenario = "precipitation"
    /\ last = "afterPush"
    /\ \E i \in 1..Len(particles) :
         /\ Active(particles[i])
         /\ particles[i].x[1] # origin[i].start_x
         /\ \A k \in 1..Len(out) : out[k][1] # i - 1

\* C6: no step shortens the population; a newTimestep step leaves every
\* particle that was there where and as it was; an afterPush or finalize
\* step keeps the length, the order (each index keeps its m, q and the
\* call that appended it) and changes a particle only into the sentinel
C6_AppendOnly ==
    [][/\ Len(particles') >= Len(particles)
       /\ last' = "newTimestep" =>
              \A i \in 1..Len(particles) : particles'[i] = particles[i]
       /\ last' \in {"afterPush", "finalize"} =>
              /\ Len(particles') = Len(particles)
              /\ origin' = origin
              /\ \A i \in 1..Len(particles) :
                    /\ particles'[i].m = particles[i].m
                    /\ particles'[i].q = particles[i].q
                    /\ \/ particles'[i] = particles[i]
                       \/ IsSentinel(particles'[i])]_vars

\* a second newTimestep call has just appended to a population that held
\* a disabled particle and a particle that had moved
C6_Witness ==
    /\ last = "newTimestep"
    /\ ncalls >= 2
    /\ Len(origin) = Len(particles)
    /\ \E i, j \in 1..Len(particles) :
         /\ Disabled(particles[i])
         /\ Active(particles[j])
         /\ particles[j].x[1] # origin[j].start_x

\* C7: in a precipitation run, for every particle index i the start
\* timestep and start position afterPush derives from i are the ordinal of
\* the newTimestep call that appended the particle and the start_x that
\* call used, and every printed line carries these values
C7_PrecipProvenance ==
    scenario = "precipitation" =>
        /\ Len(origin) = Len(particles)
        /\ \A i \in 1..Len(particles) :
              /\ PrecipStartTimestep(i - 1) = origin[i].call
              /\ PrecipStartPos(i - 1) = origin[i].start_x
        /\ \A k \in 1..Len(out) :
              /\ out[k][1] + 1 \in 1..Len(particles)
              /\ out[k][2] = origin[out[k][1] + 1].call
              /\ out[k][3] = origin[out[k][1] + 1].start_x

\* a line was printed for a particle of a later batch that was not
\* injected at precip_start_x
C7_Witness ==
    /\ scenario = "precipitation"
    /\ \E k \in 1..Len(out) :
         /\ origin[out[k][1] + 1].call >= 1
         /\ origin[out[k][1] + 1].start_x # precip_start_x

\* C8: in a shockReflectivity run, the start_time added with a particle is
\* start_time + k * input_dt, k being the ordinal of the newTimestep call
\* that appended the particle, and each call appends num_points *
\* num_particles particles
C8_ShockProvenance ==
    scenario = "reflectivity" =>
        /\ Len(origin) = Len(particles)
        /\ Len(particles) = ncalls * num_points * num_particles
        /\ \A k \in 1..Len(added) :
              /\ added[k].i + 1 \in 1..Len(particles)
              /\ added[k].value[2] =
                    FAdd(start_time,
                         FMul(D(origin[added[k].i + 1].call), input_dt))
        /\ \A k \in 1..Len(transmitted) :
              \E a \in 1..Len(added) :
                  added[a].sink = "transmitted" /\
                  added[a].value = transmitted[k]
        /\ \A k \in 1..Len(reflected) :
              \E a \in 1..Len(added) :
                  added[a].sink = "reflected" /\
                  added[a].value = reflected[k]

\* particles of the first and of the second batch have been recorded
C8_Witness ==
    /\ scenario = "reflectivity"
    /\ \E a, b \in 1..Len(added) :
         /\ origin[added[a].i + 1].call = 0
         /\ origin[added[b].i + 1].call = 1
         /\ added[a].value[2] # added[b].value[2]

\* the particles writeParticles keeps: those whose position length is not 0
KeptIndices(ps) ==
    {i \in 1..Len(ps) : ~FEq(vector_length(ps[i].x), D(0))}
\* the row a kept particle lands in
RowOf(ps, i) == Cardinality({j \in KeptIndices(ps) : j <= i})

\* C9: after writeParticles the position and the velocity array have one
\* row per particle whose position length is not zero, in population
\* order, and row k of both arrays comes from the same particle
C9_ParallelArrays ==
    last = "writeParticles" =>
        /\ Len(files.proton_position) = Cardinality(KeptIndices(particles))
        /\ Len(files.proton_velocity) = Cardinality(KeptIndices(particles))
        /\ \A i \in KeptIndices(particles) :
              /\ files.proton_position[RowOf(particles, i)] = particles[i].x
              /\ files.proton_velocity[RowOf(particles, i)] = particles[i].v

\* a snapshot of a population with a zero-length particle in front of two
\* particles that are kept
C9_Witness ==
    /\ last = "writeParticles"
    /\ Len(particles) = 3
    /\ KeptIndices(particles) = {2, 3}
    /\ particles[2].v # particles[3].v

\* C10: no row of a written position array is the position of a disabled
\* particle
C10_SnapshotOnlyLive ==
    last = "writeParticles" =>
        \A k \in 1..Len(files.proton_position) :
            ~isnan(vector_length(files.proton_position[k]))

\* C11: a writeParticles call calls writeArray for both arrays and closes
\* the file whatever each writeArray returns, writes one line to std::cerr
\* for each array that was not written (the position line when the
\* position array was not) and leaves the population as it was
C11_WriteFailureNonFatal ==
    [][last' = "writeParticles" =>
          /\ particles' = particles
          /\ files'.attempted = <<"proton_position", "proton_velocity">>
          /\ files'.closed
          /\ Len(err') = Len(err) + 2 - Cardinality(files'.written)
          /\ "proton_position" \notin files'.written =>
                 err'[Len(err) + 1] = PositionError
          /\ "proton_velocity" \notin files'.written =>
                 err'[Len(err')] = VelocityError]_vars

\* the position write of the first call failed and its velocity write
\* succeeded; a second call on the same population has written both arrays
C11_Witness ==
    /\ last = "writeParticles"
    /\ ncalls = 2
    /\ err = <<PositionError>>
    /\ files.written = {"proton_position", "proton_velocity"}
    /\ Len(files.proton_position) >= 2

\* C12: after createScenario the run holds the scenario of the name it was
\* called with when that name is one of the five registered ones and
\* std::cerr is empty; for any other name no scenario is held, the
\* diagnostic is on std::cerr and the process has exited; nothing happens
\* after the exit
C12_CreateScenario ==
    /\ [](last \in {"createScenario", "exit"} =>
            IF input.name \in {"single", "distribution", "precipitation",
                               "analysator", "reflectivity"}
            THEN last = "createScenario" /\ scenario = input.name /\
                 err = <<>>
            ELSE last = "exit" /\ scenario = "none" /\
                 err = <<UnknownMode>>)
    /\ [][last # "exit"]_vars

\* createScenario was called with a registered name in another case
C12_Witness ==
    /\ last = "exit"
    /\ input.name = "Single"

\* C13: the population analysatorScenario::initialParticles returns has
\* one particle per complete record of six numbers on standard input, in
\* input order, each with the position and velocity of its record; the
\* numbers of an incomplete last record are dropped and nothing but the
\* prompt is written to std::cerr
C13_AnalysatorIngest ==
    (scenario = "analysator" /\ last = "initialParticles") =>
        /\ Len(particles) = Len(input.stdin) \div 6
        /\ \A k \in 1..Len(particles) :
              /\ particles[k].x = <<input.stdin[6 * k - 5],
                                    input.stdin[6 * k - 4],
                                    input.stdin[6 * k - 3]>>
              /\ particles[k].v = <<input.stdin[6 * k - 2],
                                    input.stdin[6 * k - 1],
                                    input.stdin[6 * k]>>
        /\ err = <<ReadingPrompt>>

\* the input held two records and part of a third
C13_Witness ==
    /\ scenario = "analysator"
    /\ last = "initialParticles"
    /\ Len(input.stdin) % 6 # 0
    /\ Len(particles) = 2
    /\ particles[1].x # particles[2].x

\* the (position, velocity) pairs of a population
Pairs(ps) == {<<ps[k].x, ps[k].v>> : k \in 1..Len(ps)}
\* the live particles of a population that the zero-length rule keeps
LiveKept(ps) ==
    {k \in 1..Len(ps) :
        Active(ps[k]) /\ ~FEq(vector_length(ps[k].x), D(0))}

\* C14: the population read back from a written snapshot has the
\* (position, velocity) pairs of the live particles of the population the
\* snapshot was written of, those of zero position length left out
C14_RoundTrip ==
    last = "initialParticles" =>
        Pairs(particles) = {<<input.p[k].x, input.p[k].v>> :
                               k \in LiveKept(input.p)}

\* C15: a finalize step of the shockReflectivity scenario leaves four
\* files: transmitted.dat holding the transmitted histogram with the
\* descriptor transmitted.dat.bov naming transmitted.dat, and reflected.dat
\* holding the reflected histogram with the descriptor reflected.dat.bov
\* naming reflected.dat; the population and both histograms are unchanged
C15_FinalizePersists ==
    [][(scenario = "reflectivity" /\ last' = "finalize") =>
          /\ particles' = particles
          /\ transmitted' = transmitted
          /\ reflected' = reflected
          /\ Cardinality(saved') = 4
          /\ \E d, b \in saved' :
                /\ d.name = "transmitted.dat" /\ d.data = transmitted
                /\ b.name = "transmitted.dat.bov" /\ b.datafile = d.name
          /\ \E d, b \in saved' :
                /\ d.name = "reflected.dat" /\ d.data = reflected
                /\ b.name = "reflected.dat.bov" /\ b.datafile = d.name]_vars

\* finalize has run with entries in both histograms
C15_Witness ==
    /\ scenario = "reflectivity"
    /\ last = "finalize"
    /\ transmitted # <<>>
    /\ reflected # <<>>
    /\ Cardinality(saved) = 4

\* C16: in a shockReflectivity run, two particles appended at the same
\* place of their batch by newTimestep calls with the same step, time and
\* V were appended with the same mass, charge, position and velocity,
\* whatever was called before either call
C16_InjectionReproducible ==
    scenario = "reflectivity" =>
        \A i, j \in 1..Len(origin) :
            (/\ i % (num_points * num_particles) =
                   j % (num_points * num_particles)
             /\ origin[i].step = origin[j].step
             /\ origin[i].time = origin[j].time
             /\ origin[i].V = origin[j].V) =>
                origin[i].p = origin[j].p

\* the second call had the arguments of the first, and in between
\* particles of the first batch were pushed and recorded
C16_Witness ==
    /\ scenario = "reflectivity"
    /\ ncalls = 2
    /\ Len(origin) = 2 * num_points * num_particles
    /\ origin[1].step = origin[Len(origin)].step
    /\ origin[1].time = origin[Len(origin)].time
    /\ origin[1].V = origin[Len(origin)].V
    /\ origin[1].call # origin[Len(origin)].call
    /\ \E k \in 1..Len(origin) : origin[k].p.v # ZeroVec
    /\ npush > 0
    /\ added # <<>>

\* C17: the population singleParticleScenario::initialParticles returns
\* holds one particle, at (init_x, init_y, init_z), whose velocity is the
\* value of the field V it was handed at that point
C17_SingleInitial ==
    (scenario = "single" /\ last = "initialParticles") =>
        /\ Len(particles) = 1
        /\ particles[1].x = <<init_x, init_y, init_z>>
        /\ particles[1].v = Field(input.V, <<init_x, init_y, init_z>>)

\* the field handed over differs between the configured point and the
\* origin, and is not zero at the point
C17_Witness ==
    /\ scenario = "single"
    /\ last = "initialParticles"
    /\ Field(input.V, <<init_x, init_y, init_z>>) # Field(input.V, ZeroVec)
    /\ particles[1].v # ZeroVec

\* C18: the population distributionScenario::initialParticles returns
\* holds num_particles particles, all at (init_x, init_y, init_z), the
\* i-th with the velocity of the i-th sample of the distribution seeded
\* with random_seed plus the value of V at that point; the loop run zero
\* times returns no particle
C18_DistributionInitial ==
    /\ \A V \in VFields : DistInject(0, V) = <<>>
    /\ (scenario = "distribution" /\ last = "initialParticles") =>
          /\ Len(particles) = num_particles
          /\ \A i \in 1..Len(particles) :
                /\ particles[i].x = <<init_x, init_y, init_z>>
                /\ particles[i].v =
                      VAdd(next_particle(random_seed, i - 1).v,
                           Field(input.V, <<init_x, init_y, init_z>>))

\* the samples differ from particle to particle and the bulk velocity at
\* the point is not zero
C18_Witness ==
    /\ scenario = "distribution"
    /\ last = "initialParticles"
    /\ Len(particles) >= 2
    /\ particles[1].v # particles[2].v
    /\ Field(input.V, <<init_x, init_y, init_z>>) # ZeroVec

\* C19: in every state afterPush of the precipitation or shockReflectivity
\* scenario has just left, afterPush called again with the same arguments
\* prints no line, adds nothing to a histogram and changes no particle
C19_AfterPushIdempotent ==
    last = "afterPush" =>
        /\ scenario = "precipitation" =>
              PrecipLoop(particles, Len(particles)) =
                  [ps |-> particles, lines |-> <<>>]
        /\ scenario = "reflectivity" =>
              LET r == ShockLoop(particles, Len(particles), input.time)
              IN  /\ r.ps = particles
                  /\ r.transmitted = <<>>
                  /\ r.reflected = <<>>
                  /\ r.added = <<>>

\* afterPush has just disabled a particle of a population that also holds
\* an active particle that has been pushed
C19_Witness ==
    /\ scenario \in {"precipitation", "reflectivity"}
    /\ last = "afterPush"
    /\ npush > 0
    /\ \E i, j \in 1..Len(particles) :
         /\ Disabled(particles[i])
         /\ Active(particles[j])
         /\ particles[j].x # origin[j].p.x

\* C20: in a precipitation run no two lines of the event log carry the
\* same particle index, and an afterPush step prints, for a particle that
\* was active within the inner boundary and at or below the outer
\* threshold, exactly one line, a precipitated one
C20_OneLineInnerFirst ==
    /\ [](scenario = "precipitation" =>
            \A a, b \in 1..Len(out) : a # b => out[a][1] # out[b][1])
    /\ [][(scenario = "precipitation" /\ last' = "afterPush") =>
            \A i \in 1..Len(particles) :
                (/\ Active(particles[i])
                 /\ FLe(vector_length(particles[i].x), precip_inner_boundary)
                 /\ FLe(particles[i].x[1], precip_start_x)) =>
                    /\ Cardinality({k \in (Len(out) + 1)..Len(out') :
                                       out'[k][1] = i - 1}) = 1
                    /\ \A k \in (Len(out) + 1)..Len(out') :
                          out'[k][1] = i - 1 => IsPrecipitatedLine(out'[k])]_vars

\* a precipitated line was printed for a particle that had not been
\* pushed since it was injected within the inner boundary and at the
\* outer threshold
C20_Witness ==
    /\ scenario = "precipitation"
    /\ last = "afterPush"
    /\ npush = 0
    /\ \E k \in 1..Len(out) :
         /\ IsPrecipitatedLine(out[k])
         /\ FLe(vector_length(origin[out[k][1] + 1].p.x),
                precip_inner_boundary)
         /\ FLe(origin[out[k][1] + 1].p.x[1], precip_start_x)

\* C21: the values afterPush records for a particle are those of the
\* particle as it was before the step: a precipitated line of the
\* precipitation scenario carries the latitude of the position and the
\* kinetic energy of the velocity the particle had, an entry added to a
\* histogram of the shockReflectivity scenario the y-coordinate it had
C21_RecordBeforeDisable ==
    [][last' = "afterPush" =>
          /\ scenario = "precipitation" =>
                \A k \in (Len(out) + 1)..Len(out') :
                    IsPrecipitatedLine(out'[k]) =>
                        LET p == particles[out'[k][1] + 1]
                        IN  /\ out'[k][4] = atan2(p.x[3], p.x[1])
                            /\ out'[k][5] =
                                  FDiv(FMul(FMul(Half, p.m),
                                            dot_product(p.v, p.v)), e)
          /\ scenario = "reflectivity" =>
                \A k \in (Len(added) + 1)..Len(added') :
                    /\ added'[k].value[1] = particles[added'[k].i + 1].x[2]
                    /\ ~isnan(added'[k].value[1])]_vars

\* afterPush has just printed a line with a positive kinetic energy for a
\* particle whose velocity is now zero and whose position is NaN
C21_Witness ==
    /\ scenario = "precipitation"
    /\ last = "afterPush"
    /\ \E k \in 1..Len(out) :
         /\ FGt(out[k][5], D(0))
         /\ ~isnan(out[k][4])
         /\ IsSentinel(particles[out[k][1] + 1])

\* C22: a newTimestep step of the precipitation scenario appends
\* num_particles particles; the k-th of them (k from 0) has the
\* x-coordinate precip_start_x + (k / num_particles) * (precip_stop_x -
\* precip_start_x), the y-coordinate 0, the proton mass and charge, and
\* the velocity the field V of the call has at the particle's position
C22_PrecipInjection ==
    [][(scenario = "precipitation" /\ last' = "newTimestep") =>
          /\ Len(particles') = Len(particles) + num_particles
          /\ \A k \in 0..(num_particles - 1) :
                LET p == particles'[Len(particles) + k + 1]
                IN  /\ p.x[1] =
                          FAdd(precip_start_x,
                               FMul(FDiv(D(k), D(num_particles)),
                                    FSub(precip_stop_x, precip_start_x)))
                    /\ p.x[2] = D(0)
                    /\ p.v = Field(input'.V, p.x)
                    /\ p.m = mp /\ p.q = e]_vars

\* the second call has just appended particles off the injection line,
\* where V is not what it is on the line
C22_Witness ==
    /\ scenario = "precipitation"
    /\ last = "newTimestep"
    /\ ncalls = 2
    /\ LET p == particles[Len(particles)]
       IN  /\ p.x[3] # D(0)
           /\ p.x[1] # precip_start_x
           /\ Field(input.V, p.x) # Field(input.V, Vec3d(p.x[1], D(0), D(0)))

\* C23: in every state of a shockReflectivity run the entries of
\* transmitted and of reflected together are as many as the disabled
\* particles of the population, and every step leaves the entries each
\* histogram held in place, adding only behind them
C23_HistogramsCountDisabled ==
    /\ [](scenario = "reflectivity" =>
            Len(transmitted) + Len(reflected) =
                Cardinality({i \in 1..Len(particles) : Disabled(particles[i])}))
    /\ [][/\ Len(transmitted') >= Len(transmitted)
          /\ SubSeq(transmitted', 1, Len(transmitted)) = transmitted
          /\ Len(reflected') >= Len(reflected)
          /\ SubSeq(reflected', 1, Len(reflected)) = reflected]_vars

\* both histograms hold entries, a disabled particle has been pushed in a
\* field since, and a particle of the population is still active
C23_Witness ==
    /\ scenario = "reflectivity"
    /\ last = "push"
    /\ transmitted # <<>>
    /\ reflected # <<>>
    /\ \E i, j \in 1..Len(particles) :
         /\ Disabled(particles[i]) /\ particles[i].v # ZeroVec
         /\ Active(particles[j])

\* C24: in a precipitation run every particle was appended by newTimestep
\* with an x-coordinate strictly greater than precip_start_x, the threshold
\* afterPush tests, and an afterPush step prints no lost line for a
\* particle that is still as it was appended
C24_InjectedBeyondThreshold ==
    /\ [](scenario = "precipitation" =>
            \A i \in 1..Len(origin) :
                FGt(origin[i].p.x[1], precip_start_x))
    /\ [][(scenario = "precipitation" /\ last' = "afterPush") =>
            \A i \in 1..Len(particles) :
                particles[i] = origin[i].p =>
                    \A k \in (Len(out) + 1)..Len(out') :
                        out'[k][1] = i - 1 => IsPrecipitatedLine(out'[k])]_vars

\* C25: at every injection point and every time the front x afterPush
\* computes is the x newTimestep places particles at; an afterPush step of
\* the shockReflectivity scenario, called with the time a particle was
\* injected at, leaves the particle as it is and adds no entry for it when
\* the particle is still where it was injected
C25_FrontConsistent ==
    /\ [](\A i \in 0..(num_points - 1) : \A a \in ShockSamples :
            ShockBoundaryX(ShockStartY(i), a[2]) =
                ShockInjectX(ShockStartY(i), a[2]))
    /\ [][(scenario = "reflectivity" /\ last' = "afterPush") =>
            \A i \in 1..Len(particles) :
                (/\ particles[i].x = origin[i].p.x
                 /\ origin[i].time = input'.time) =>
                    /\ particles'[i] = particles[i]
                    /\ Active(particles'[i])
                    /\ \A k \in (Len(added) + 1)..Len(added') :
                          added'[k].i # i - 1]_vars

\* afterPush has run at the time of the second injection: a particle
\* injected then, off the axis, is still in place and active, and another
\* particle was recorded
C25_Witness ==
    /\ scenario = "reflectivity"
    /\ last = "afterPush"
    /\ input.time = D(137)
    /\ added # <<>>
    /\ \E i \in 1..Len(particles) :
         /\ origin[i].time = input.time
         /\ origin[i].p.x[2] # D(0)
         /\ particles[i].x = origin[i].p.x
         /\ Active(particles[i])

\* C26: in the single, distribution and analysator scenarios a step of
\* afterPush, newTimestep or finalize leaves the population as it is, no
\* step after initialParticles changes its length or turns an active
\* particle into a disabled one, and no particle is disabled in any state
C26_NonAbsorbingFrame ==
    /\ [](scenario \in {"single", "distribution", "analysator"} =>
            \A i \in 1..Len(particles) : Active(particles[i]))
    /\ [][(scenario \in {"single", "distribution", "analysator"}) =>
            /\ last' \in {"afterPush", "newTimestep", "finalize"} =>
                   particles' = particles
            /\ last # "createScenario" =>
                   /\ Len(particles') = Len(particles)
                   /\ \A i \in 1..Len(particles) :
                         /\ particles'[i].m = particles[i].m
                         /\ particles'[i].q = particles[i].q
                         /\ Active(particles[i]) => Active(particles'[i])]_vars

\* the distribution scenario has written snapshots and finalized after
\* its particles were pushed to where they differ
C26_Witness ==
    /\ scenario = "distribution"
    /\ last = "finalize"
    /\ ncalls > 0
    /\ npush > 0
    /\ Len(particles) >= 2
    /\ particles[1].x # particles[Len(particles)].x
    /\ files.name = FinalName

\* the values of a dataset, its least and its greatest value
Values(data) == {data[k].value : k \in 1..Len(data)}
Minimum(data) == CHOOSE m \in Values(data) : \A v \in Values(data) : m <= v
Maximum(data) == CHOOSE m \in Values(data) : \A v \in Values(data) : v <= m

\* the comparison of two named files went past singleStatistics: the two
\* files were read and their datasets have one size, which is not 0
StatisticsPrinted ==
    /\ calls # <<>>
    /\ calls[1].rank = 0
    /\ calls[1].ret \in {"return 0", "abort"}
    /\ calls[1].file1.data # <<>>

\* C27: the line of statistics vlsvdiff prints for each of two named files
\* carries, after the size, the least and the greatest value of the file's
\* dataset, whenever the datasets are not empty
C27_MinimumAndMaximum ==
    StatisticsPrinted =>
        /\ out[2].text = "Statistics on file"
        /\ out[2].values[2] = Minimum(calls[1].file1.data)
        /\ out[2].values[3] = Maximum(calls[1].file1.data)
        /\ out[3].text = "Statistics on file"
        /\ out[3].values[2] = Minimum(calls[1].file2.data)
        /\ out[3].values[3] = Maximum(calls[1].file2.data)

\* the five statistics of a dataset and the twelve distances of two, in
\* the order of the column key
StatisticsOf(data) ==
    LET s == singleStatistics(data)
    IN  <<s.size, s.mini, s.maxi, s.avg, s.stdev>>
RECURSIVE DistancesOf(_, _, _)
DistancesOf(data1, data2, n) ==
    IF n = 0 THEN <<>>
    ELSE LET d == pDistance(data1, data2, DistanceCalls[n][1],
                            DistanceCalls[n][2])
         IN  DistancesOf(data1, data2, n - 1) \o <<d.absolute, d.relative>>

\* the calls of the non-verbose mode that returned 0 among the first n,
\* and the rows of values among the lines printed
Succeeded(n) ==
    {k \in 1..n : calls[k].rank > 0 /\ calls[k].ret = "return 0"}
Rows(lines) == SelectSeq(lines, LAMBDA l : l.text = "" /\ l.values # <<>>)
IsWarning(l) ==
    l = Line("WARNING (pDistance) : length of reference is 0.0, cannot divide to give relative distance.",
             <<>>)

C28_TwoRows ==
    /\ pc = "return 0"
    /\ Len(Rows(out)) = 2

\* both arguments are folders
TwoFolders == Len(args) = 2 /\ args[1].isdir /\ args[2].isdir
\* the names of a folder's entries that processDirectory keeps
GridFiles(entries) ==
    {n \in DOMAIN entries : found(n, mask) /\ found(n, suffix)}
\* a list holds the names of a set once each, in the order of std::string
InOrder(list, names) ==
    /\ {list[k] : k \in 1..Len(list)} = names
    /\ \A a, b \in 1..Len(list) : a < b => StringLess(list[a], list[b])
\* main has returned or the process was ended
Ended == pc \in {"return 0", "return 1", "exit 1", "abort"}
\* the statements main has left at most: the file lists and the test of
\* their sizes, then one call for each file from it2 on and the return
Remaining ==
    CASE pc = "start" -> MaxFiles + 2
      [] pc = "dirs" -> Len(fileList2) - it2 + 1
      [] OTHER -> 0

====
